---------------------------- MODULE Spec2Model ----------------------------
(***************************************************************************)
(* A model of the DMS document-management backend (Rust, axum + sqlx +     *)
(* OpenDAL).  The state is the relational database (documents,             *)
(* document_versions, document_metadata, tags, document_tags, audit_logs), *)
(* the object store, and the last HTTP response.  Every route handler is   *)
(* one action; a handler draws each of its inputs at the point where the   *)
(* code reads it (the X-API-Key header in the extractor, the multipart     *)
(* form after the permission check, the outcome of a storage or database   *)
(* call when the call is made).                                            *)
(*                                                                         *)
(* The storage and database calls whose failure a handler goes on after,   *)
(* or that fail after an earlier effect, may fail: the sidecar write, the  *)
(* file write, the version insert, the metadata upsert and the commit of   *)
(* an upload, every audit insert, every storage delete and the row delete  *)
(* of a hard delete, the sidecar write of a folder creation.  A failing    *)
(* SELECT ends the request with a 500 before anything changed and is left  *)
(* out.                                                                    *)
(*                                                                         *)
(* Strings the code inspects character by character (category, folder      *)
(* name, storage key) are sequences of one-character strings; an           *)
(* Option<T> is the empty sequence (None) or a one-element sequence.       *)
(***************************************************************************)
EXTENDS Integers, Sequences, FiniteSets, TLC

(* ------------------------------ bounds -------------------------------- *)
\* uploads that may reach the object store (each adds at most one document
\* and one version)
MaxUploads == 2
\* the same, in the runs that send every kind of X-API-Key header
MaxUploadsAccess == 1
\* rows the audit_logs table may hold; a further insert fails
MaxAudit == 1
\* the same, in the runs that follow the audit trail
MaxAuditTrail == 2
\* uploads begun in the runs with concurrent uploads
MaxRaceUploads == 3

(* ------------------------------ options ------------------------------- *)
None == <<>>
Some(x) == <<x>>
IsSome(o) == o # <<>>
Unwrap(o) == o[1]

(* ------------------------------ strings ------------------------------- *)
\* char::is_alphanumeric on the characters the inputs are drawn from
is_alphanumeric(c) == c \in {"F", "D", "T", "k", "x", "y"}
is_whitespace(c) == c = " "

RECURSIVE trim_start(_)
trim_start(s) ==
    IF s # <<>> /\ is_whitespace(Head(s)) THEN trim_start(Tail(s)) ELSE s

RECURSIVE trim_end(_)
trim_end(s) ==
    IF s # <<>> /\ is_whitespace(s[Len(s)])
    THEN trim_end(SubSeq(s, 1, Len(s) - 1))
    ELSE s

\* str::trim
trim(s) == trim_end(trim_start(s))

Uncategorized == <<"U", "n", "c", "a", "t", "e", "g", "o", "r", "i", "z", "e", "d">>
FolderMetadataFile == ".folder_metadata.json"

\* a Uuid rendered by Display: hex digits and '-', here one token
UuidStr(id) == "u" \o ToString(id)
\* "v{version_number}"
VersionStr(n) == "v" \o ToString(n)

(* upload.rs: sanitize_folder_name, and the same inline loop of
   folders.rs create_folder *)
sanitize_folder_name(name) ==
    [i \in 1..Len(name) |->
        IF is_alphanumeric(name[i]) \/ name[i] = "_" \/ name[i] = "-"
        THEN name[i]
        ELSE "_"]

\* format!("{}/.folder_metadata.json", sanitized_name)
metadata_path_of(sanitized_name) == sanitized_name \o <<"/", FolderMetadataFile>>

\* faulty variant: the key does not carry the document id
build_storage_path_without_document(folder_name, document_id, version_number) ==
    LET f == IF IsSome(folder_name) /\ trim(Unwrap(folder_name)) # <<>>
             THEN trim(Unwrap(folder_name))
             ELSE Uncategorized
    IN f \o <<"/", VersionStr(version_number)>>

(* upload.rs: build_storage_path_with_folder. The folder is the trimmed
   category as sent, or "Uncategorized" when absent or blank. *)
build_storage_path_with_folder(folder_name, document_id, version_number) ==
    LET f == IF IsSome(folder_name) /\ trim(Unwrap(folder_name)) # <<>>
             THEN trim(Unwrap(folder_name))
             ELSE Uncategorized
    IN f \o <<"/", UuidStr(document_id), "/", VersionStr(version_number)>>

(* ------------------------------- users -------------------------------- *)
(* The users table is provisioned out of band and only read by the
   program: one account per role of the matrix, and one whose role string
   is none of the three. *)
Users ==
    { [id |-> "viewer1", username |-> <<"v">>, api_key |-> "key-v",
       password |-> Some(<<"p", "v">>), role |-> "viewer"],
      [id |-> "editor1", username |-> <<"e">>, api_key |-> "key-e",
       password |-> Some(<<"p", "e">>), role |-> "editor"],
      [id |-> "admin1",  username |-> <<"a">>, api_key |-> "key-a",
       password |-> Some(<<"p", "a">>), role |-> "admin"],
      [id |-> "guest1",  username |-> <<"g">>, api_key |-> "key-g",
       password |-> None,               role |-> "guest"] }

\* what a request may carry in X-API-Key: nothing, a key of no user, a user's key
KeyInputs == {None, Some("key-?")} \cup {Some(u.api_key) : u \in Users}

StorageAction == {"Read", "Write", "Delete", "Stat", "GetActions"}
\* role strings check_permission is applied to
RoleInputs == {"viewer", "editor", "admin", "guest", "", "Admin", "ADMIN",
               "Viewer", "Editor", "root", "owner", "viewer "}

Ok == [kind |-> "Ok", msg |-> ""]
BadRequest(m) == [kind |-> "BadRequest", msg |-> m]
NotFound(m) == [kind |-> "NotFound", msg |-> m]
Db == [kind |-> "Db", msg |-> "database error"]
Storage == [kind |-> "Storage", msg |-> "storage error"]
\* the variants of AppError that no modelled path constructs
Io == [kind |-> "Io", msg |-> "io error"]
Env == [kind |-> "Env", msg |-> "env error"]
Other == [kind |-> "Other", msg |-> "other error"]
AppError ==
    {Db, Io, Env, Other, Storage} \cup
    {BadRequest(m) : m \in {"Missing X-API-Key header", "Invalid API key",
                            "Permission denied: read access required",
                            "Permission denied: write access required",
                            "Permission denied: admin access required",
                            "Missing file"}} \cup
    {NotFound(m) : m \in {"Document not found"}}

\* faulty variant: a missing or unknown API key is answered 401 and a
\* permission denial 403
into_response_auth_statuses(self) ==
    CASE self.kind = "BadRequest" ->
           IF self.msg \in {"Missing X-API-Key header", "Invalid API key"}
           THEN 401
           ELSE IF self.msg \in {"Permission denied: read access required",
                                 "Permission denied: write access required",
                                 "Permission denied: admin access required"}
           THEN 403
           ELSE 400
      [] self.kind = "NotFound" -> 404
      [] self.kind \in {"Db", "Io", "Env", "Other"} -> 500
      [] self.kind = "Storage" -> 500

(* The status of AppError::Storage. error.rs has no such variant, although
   folders.rs 46 and 193 construct it and documents.rs 122 converts an
   opendal error with `?`; the status is the one the specification gives
   the object-storage kind. *)
StorageStatus == 500

(* error.rs: AppError::into_response, the status *)
into_response(self) ==
    CASE self.kind = "BadRequest" -> 400
      [] self.kind = "NotFound" -> 404
      [] self.kind \in {"Db", "Io", "Env", "Other"} -> 500
      [] self.kind = "Storage" -> StorageStatus

\* the Display text of the error a Db, Io, Env, Other or storage value wraps
SourceText == "<source>"

\* faulty variant: the message alone, without the text of the variant
to_string_bare(self) ==
    CASE self.kind \in {"BadRequest", "NotFound"} -> self.msg
      [] OTHER -> self.msg \o ": " \o SourceText

(* error.rs 10-26: the Display of AppError that thiserror derives from the
   #[error("...")] attributes *)
to_string(self) ==
    CASE self.kind = "BadRequest" -> "bad request: " \o self.msg
      [] self.kind = "NotFound" -> "not found: " \o self.msg
      [] OTHER -> self.msg \o ": " \o SourceText

\* error.rs 29-32, 53-57: ErrorBody { error: self.to_string() }
ErrorBody(self) == [error |-> to_string(self)]

\* Ok(Json(..)) and documents.rs 149 answer 200, Err(e) answers e.into_response()
status_of(res) == IF res.kind = "Ok" THEN 200 ELSE into_response(res)

\* faulty variant: an unknown key resolves to some account instead of being rejected
from_request_parts_lenient(api_key) ==
    IF ~IsSome(api_key)
    THEN [res |-> BadRequest("Missing X-API-Key header"), user |-> None]
    ELSE LET found == {u \in Users : u.api_key = Unwrap(api_key)} IN
         IF found # {}
         THEN [res |-> Ok, user |-> Some(CHOOSE u \in found : TRUE)]
         ELSE [res |-> Ok,
               user |-> Some(CHOOSE u \in Users : u.role = "admin")]

(* auth.rs: CurrentUser::from_request_parts *)
from_request_parts(api_key) ==
    IF ~IsSome(api_key)
    THEN [res |-> BadRequest("Missing X-API-Key header"), user |-> None]
    ELSE LET found == {u \in Users : u.api_key = Unwrap(api_key)} IN
         IF found # {}
         THEN [res |-> Ok, user |-> Some(CHOOSE u \in found : TRUE)]
         ELSE [res |-> BadRequest("Invalid API key"), user |-> None]

\* faulty variant: Write is granted to every known role
check_permission_write_for_all(role, action) ==
    CASE action = "Read" ->
           IF role = "viewer" \/ role = "editor" \/ role = "admin"
           THEN Ok ELSE BadRequest("Permission denied: read access required")
      [] action = "Write" ->
           IF role = "viewer" \/ role = "editor" \/ role = "admin"
           THEN Ok ELSE BadRequest("Permission denied: write access required")
      [] action = "Delete" ->
           IF role = "admin"
           THEN Ok ELSE BadRequest("Permission denied: admin access required")
      [] action = "Stat" ->
           IF role = "viewer" \/ role = "editor" \/ role = "admin"
           THEN Ok ELSE BadRequest("Permission denied: read access required")
      [] action = "GetActions" ->
           IF role = "admin"
           THEN Ok ELSE BadRequest("Permission denied: admin access required")

\* faulty variant: Delete and GetActions are granted to editors too
check_permission_editor_deletes(role, action) ==
    CASE action = "Read" ->
           IF role = "viewer" \/ role = "editor" \/ role = "admin"
           THEN Ok ELSE BadRequest("Permission denied: read access required")
      [] action = "Write" ->
           IF role = "editor" \/ role = "admin"
           THEN Ok ELSE BadRequest("Permission denied: write access required")
      [] action = "Delete" ->
           IF role = "editor" \/ role = "admin"
           THEN Ok ELSE BadRequest("Permission denied: admin access required")
      [] action = "Stat" ->
           IF role = "viewer" \/ role = "editor" \/ role = "admin"
           THEN Ok ELSE BadRequest("Permission denied: read access required")
      [] action = "GetActions" ->
           IF role = "editor" \/ role = "admin"
           THEN Ok ELSE BadRequest("Permission denied: admin access required")

(* auth.rs: check_permission, on the role of the CurrentUser *)
RECURSIVE check_permission(_, _)
check_permission(role, action) ==
    CASE action = "Read" ->
           IF role = "viewer" \/ role = "editor" \/ role = "admin"
           THEN Ok ELSE BadRequest("Permission denied: read access required")
      [] action = "Write" ->
           IF role = "editor" \/ role = "admin"
           THEN Ok ELSE BadRequest("Permission denied: write access required")
      [] action = "Delete" ->
           IF role = "admin"
           THEN Ok ELSE BadRequest("Permission denied: admin access required")
      [] action = "Stat" -> check_permission(role, "Read")
      [] action = "GetActions" ->
           IF role = "admin"
           THEN Ok ELSE BadRequest("Permission denied: admin access required")


(* ------------------------------- state -------------------------------- *)
VARIABLES
    documents,          \* rows of documents: [id, title, category, deleted_at]
    document_versions,  \* rows of document_versions
    document_metadata,  \* rows of document_metadata: [document_id, key, value]
    tags,               \* rows of tags: [id, name]
    document_tags,      \* rows of document_tags: [document_id, tag_id]
    audit_logs,         \* rows of audit_logs in insertion order
    storage,            \* the object store: key -> object
    next_id,            \* the next document id the database generates
    clock,              \* CURRENT_TIMESTAMP of the next statement that stores one
    upload_count,       \* uploads that reached the object store so far
    uploaded,           \* history: what each committed version row was uploaded with
    hard_deleted,       \* history: the ids removed by a hard delete
    resp,               \* the last request and its response
    perm_in,            \* inputs of the last direct check_permission application
    perm_out,           \* its result
    tasks,              \* the requests in flight: each one's position and locals
    boot                \* the process start: its position and the warm-up's locals

state == <<documents, document_versions, document_metadata, tags, document_tags,
           audit_logs, storage, next_id, clock, upload_count, uploaded,
           hard_deleted>>
perm == <<perm_in, perm_out>>
vars == <<documents, document_versions, document_metadata, tags, document_tags,
          audit_logs, storage, next_id, clock, upload_count, uploaded,
          hard_deleted, resp, perm_in, perm_out, tasks, boot>>

\* the ids a request may name: every id issued so far and one never issued
DocIdInputs == 1..next_id

\* the object store as a map with a growing key set
Put(store, key, obj) ==
    [k \in DOMAIN store \cup {key} |-> IF k = key THEN obj ELSE store[k]]
Remove(store, keys) == [k \in DOMAIN store \ keys |-> store[k]]
FileObject(bytes) == [kind |-> "file", bytes |-> bytes, json |-> None]
JsonObject(json) == [kind |-> "json", bytes |-> <<>>, json |-> Some(json)]
\* Operator::stat(path).is_ok()
stat_is_ok(store, path) == path \in DOMAIN store

\* faulty variant: the sidecar does not record the username
FolderMetadata_without_username(sanitized_name, current_user, now) ==
    [folder_name |-> sanitized_name,
     created_by |-> current_user.id,
     created_by_username |-> <<>>,
     created_at |-> now]

\* serde_json::to_string(&FolderMetadata {..})
FolderMetadata(sanitized_name, current_user, now) ==
    [folder_name |-> sanitized_name,
     created_by |-> current_user.id,
     created_by_username |-> current_user.username,
     created_at |-> now]

\* doc is the document id the request names, when it names one
Response(op, key, doc, res, body, form) ==
    [op |-> op, key |-> key, doc |-> doc, kind |-> res.kind,
     msg |-> res.msg, body |-> body, status |-> status_of(res),
     error |-> IF res.kind = "Ok" THEN None ELSE Some(ErrorBody(res).error),
     form |-> form]

Reply(op, key, doc, res, body) ==
    resp' = Response(op, key, doc, res, body, None)

\* the reply to an upload whose form was read: form is the metadata fields
\* the request sent
ReplyForm(key, doc, res, body, meta) ==
    resp' = Response("upload", key, doc, res, body, Some(meta))

\* a request that ends in an error before it changed anything
Refuse(op, key, doc, res) ==
    /\ Reply(op, key, doc, res, None)
    /\ UNCHANGED state
    /\ UNCHANGED <<perm, tasks, boot>>

\* an upload that ends in an error before it changed anything
RefuseForm(key, doc, res, meta) ==
    /\ ReplyForm(key, doc, res, None, meta)
    /\ UNCHANGED state
    /\ UNCHANGED <<perm, tasks, boot>>

(* ------------------------------- audit -------------------------------- *)
\* whether an INSERT INTO audit_logs may succeed now
AuditOutcomes(w) == IF Len(audit_logs) < w.max_audit THEN w.audit ELSE {FALSE}

\* faulty variant: a failed audit insert is returned to the client with `?`
after_audit_propagates(res, audit_ok) == IF audit_ok THEN res ELSE Db

(* upload.rs 453-476, documents.rs 129-146, 243-263, 369-391:
   `if let Err(e) = log_..(..).await { warn!(..) }`, the handler goes on
   with the result it had *)
after_audit(res, audit_ok) == res

(* audit.rs: log_action; the callers drop its error *)
log_action(logs, log_entry, ok) ==
    IF ok THEN Append(logs, log_entry) ELSE logs

\* audit.rs: log_upload
log_upload(logs, user_id, document_id, document_version, metadata, ok) ==
    log_action(logs,
               [user_id |-> user_id, action |-> "Upload",
                document_id |-> Some(document_id),
                document_version |-> Some(document_version),
                metadata |-> metadata],
               ok)

\* faulty variant: the Download entry does not carry the version served
log_download_no_version(logs, user_id, document_id, document_version, ok) ==
    log_action(logs,
               [user_id |-> user_id, action |-> "Download",
                document_id |-> Some(document_id),
                document_version |-> None,
                metadata |-> <<>>],
               ok)

\* audit.rs: log_download
log_download(logs, user_id, document_id, document_version, ok) ==
    log_action(logs,
               [user_id |-> user_id, action |-> "Download",
                document_id |-> Some(document_id),
                document_version |-> document_version,
                metadata |-> <<>>],
               ok)

\* audit.rs: log_delete
log_delete(logs, user_id, document_id, metadata, ok) ==
    log_action(logs,
               [user_id |-> user_id, action |-> "Delete",
                document_id |-> Some(document_id),
                document_version |-> None,
                metadata |-> metadata],
               ok)

(* ------------------------------ queries ------------------------------- *)
\* SELECT ... FROM documents WHERE id = $1
find_document(docs, id) == {d \in docs : d.id = id}
\* SELECT ... FROM documents WHERE id = $1 AND deleted_at IS NULL
find_active_document(docs, id) ==
    {d \in docs : d.id = id /\ d.deleted_at = None}
\* SELECT ... FROM document_versions WHERE document_id = $1
versions_of(vers, id) == {v \in vers : v.document_id = id}
Max(S) == CHOOSE x \in S : \A y \in S : y <= x
Min(S) == CHOOSE x \in S : \A y \in S : x <= y
\* SELECT MAX(version_number) FROM document_versions WHERE document_id = $1
max_version(vers, id) ==
    LET ns == {v.version_number : v \in versions_of(vers, id)} IN
    IF ns = {} THEN None ELSE Some(Max(ns))

\* faulty variant: a number is skipped
next_version_skips(vers, id) ==
    LET m == max_version(vers, id) IN
    IF IsSome(m) THEN Unwrap(m) + 2 ELSE 1

(* upload.rs 246-257: SELECT MAX(version_number) + 1 ..., then unwrap_or(1) *)
next_version(vers, id) ==
    LET m == max_version(vers, id) IN
    IF IsSome(m) THEN Unwrap(m) + 1 ELSE 1

(* ------------------------------- upload ------------------------------- *)
\* Uuid::parse_str on the text of the document_id field
parse_uuid(text) ==
    LET ids == {i \in DocIdInputs : UuidStr(i) = text} IN
    IF ids = {} THEN None ELSE Some(CHOOSE i \in ids : TRUE)

\* the document_id field: absent, or one of the texts of the workload, or
\* the text of an id
DocumentIdTexts == {"not-a-uuid"}
DocumentIdInputs(w) ==
    {None} \cup {Some(t) : t \in w.document_id_texts}
           \cup {Some(UuidStr(i)) : i \in DocIdInputs}
TitleInputs == {None, Some(<<>>), Some(<<"T">>)}
CategoryInputs == {None, Some(<<" ">>), Some(<<"F">>), Some(<<"F", " ", "D">>)}
FileInputs ==
    {None,
     Some([file_name |-> Some("a.txt"), bytes |-> <<1>>]),
     Some([file_name |-> None, bytes |-> <<2, 2>>])}
\* a form field that carries metadata: a meta_<key> field with its text, or
\* the "metadata" field with its text as JSON tokens
MetaField(name, value) == [name |-> name, value |-> value, json |-> <<>>]
MetadataField(json) == [name |-> "metadata", value |-> "", json |-> json]

\* the meta_<key> fields of the form, in the order sent
MetaInputs == {<<>>, <<MetaField("meta_k", "x")>>}

\* name.trim_start_matches("meta_") on the field names of the inputs
meta_key(name) ==
    CASE name = "meta_k" -> "k"
      [] name = "meta_m" -> "m"
      [] OTHER -> ""

\* the tokens of a JSON text: punctuation, literals and string literals
Tok(t) == [t |-> t, s |-> ""]
Str(s) == [t |-> "string", s |-> s]

\* serde_json::Value; map holds the members of an object (or the items of
\* an array, under the key "")
JsonValue(type, s, map) == [type |-> type, s |-> s, map |-> map]
Parsed(value, rest) == [ok |-> TRUE, value |-> value, rest |-> rest]
ParseErr == [ok |-> FALSE, value |-> JsonValue("Null", "", <<>>), rest |-> <<>>]

\* serde_json::Map::insert: a repeated key keeps its place and takes the
\* new value
map_insert(map, k, v) ==
    IF \E i \in 1..Len(map) : map[i].k = k
    THEN [i \in 1..Len(map) |->
            IF map[i].k = k THEN [k |-> k, v |-> v] ELSE map[i]]
    ELSE Append(map, [k |-> k, v |-> v])

\* serde_json's parser: a value, then what is left of the text
RECURSIVE parse_value(_)
RECURSIVE parse_members(_, _)
RECURSIVE parse_items(_, _)
parse_value(ts) ==
    IF ts = <<>> THEN ParseErr
    ELSE LET h == Head(ts) IN
         CASE h.t = "string" -> Parsed(JsonValue("String", h.s, <<>>), Tail(ts))
           [] h.t = "number" -> Parsed(JsonValue("Number", "", <<>>), Tail(ts))
           [] h.t \in {"true", "false"} ->
                Parsed(JsonValue("Bool", "", <<>>), Tail(ts))
           [] h.t = "null" -> Parsed(JsonValue("Null", "", <<>>), Tail(ts))
           [] h.t = "[" ->
                IF Len(ts) >= 2 /\ ts[2].t = "]"
                THEN Parsed(JsonValue("Array", "", <<>>), SubSeq(ts, 3, Len(ts)))
                ELSE parse_items(Tail(ts), <<>>)
           [] h.t = "{" ->
                IF Len(ts) >= 2 /\ ts[2].t = "}"
                THEN Parsed(JsonValue("Object", "", <<>>), SubSeq(ts, 3, Len(ts)))
                ELSE parse_members(Tail(ts), <<>>)
           [] OTHER -> ParseErr

\* "key" : value, then "," and more members, or "}"
parse_members(ts, map) ==
    IF Len(ts) < 3 \/ ts[1].t # "string" \/ ts[2].t # ":" THEN ParseErr
    ELSE LET v == parse_value(SubSeq(ts, 3, Len(ts))) IN
         IF ~v.ok \/ v.rest = <<>> THEN ParseErr
         ELSE LET m == map_insert(map, ts[1].s, v.value)
                  sep == Head(v.rest)
              IN CASE sep.t = "}" ->
                        Parsed(JsonValue("Object", "", m), Tail(v.rest))
                   [] sep.t = "," -> parse_members(Tail(v.rest), m)
                   [] OTHER -> ParseErr

\* value, then "," and more items, or "]"
parse_items(ts, items) ==
    LET v == parse_value(ts) IN
    IF ~v.ok \/ v.rest = <<>> THEN ParseErr
    ELSE LET m == Append(items, [k |-> "", v |-> v.value])
             sep == Head(v.rest)
         IN CASE sep.t = "]" ->
                   Parsed(JsonValue("Array", "", m), Tail(v.rest))
              [] sep.t = "," -> parse_items(Tail(v.rest), m)
              [] OTHER -> ParseErr

\* serde_json::from_str::<Value>(&text): the whole text is one value
from_str(text) ==
    LET r == parse_value(text) IN
    IF r.ok /\ r.rest = <<>> THEN Some(r.value) ELSE None

\* Value::as_str
as_str(v) == IF v.type = "String" THEN Some(v.s) ELSE None

\* the "metadata" fields the inputs draw from: {"k":"y"}, {"k":"y","m":"x"},
\* {"k":1,"m":"x"}, {"k":true}, {"k":null}, {"k":[]}, {"k":{"m":"x"}},
\* {"":"x"}, {}, "x", [], and the malformed {"k":
JsonTexts ==
    {<<Tok("{"), Str("k"), Tok(":"), Str("y"), Tok("}")>>,
     <<Tok("{"), Str("k"), Tok(":"), Str("y"), Tok(","),
       Str("m"), Tok(":"), Str("x"), Tok("}")>>,
     <<Tok("{"), Str("k"), Tok(":"), Tok("number"), Tok(","),
       Str("m"), Tok(":"), Str("x"), Tok("}")>>,
     <<Tok("{"), Str("k"), Tok(":"), Tok("true"), Tok("}")>>,
     <<Tok("{"), Str("k"), Tok(":"), Tok("null"), Tok("}")>>,
     <<Tok("{"), Str("k"), Tok(":"), Tok("["), Tok("]"), Tok("}")>>,
     <<Tok("{"), Str("k"), Tok(":"), Tok("{"), Str("m"), Tok(":"), Str("x"),
       Tok("}"), Tok("}")>>,
     <<Tok("{"), Str(""), Tok(":"), Str("x"), Tok("}")>>,
     <<Tok("{"), Tok("}")>>,
     <<Str("x")>>,
     <<Tok("["), Tok("]")>>,
     <<Tok("{"), Str("k"), Tok(":")>>}

\* the metadata fields of a form: one "metadata" field of each text, and
\* meta_<key> fields with one key, a repeated key, two keys, an empty key,
\* and both kinds of field for the same key in either order
MetadataFormInputs ==
    {<<MetadataField(t)>> : t \in JsonTexts} \cup
    {<<>>,
     <<MetaField("meta_k", "x")>>,
     <<MetaField("meta_m", "y")>>,
     <<MetaField("meta_k", "x"), MetaField("meta_k", "y")>>,
     <<MetaField("meta_k", "y"), MetaField("meta_m", "x")>>,
     <<MetaField("meta_", "x")>>,
     <<MetaField("meta_k", "x"),
       MetadataField(<<Tok("{"), Str("k"), Tok(":"), Str("y"), Tok("}")>>)>>,
     <<MetadataField(<<Tok("{"), Str("k"), Tok(":"), Str("y"), Tok("}")>>),
       MetaField("meta_k", "x")>>}

\* HashMap::insert
hash_insert(metadata, key, value) ==
    SelectSeq(metadata, LAMBDA e : e.key # key)
        \o <<[key |-> key, value |-> value]>>

\* upload.rs 133-140: the members of the object whose value is a string and
\* whose key is not empty are inserted, the others are passed over
RECURSIVE insert_members(_, _)
insert_members(map, acc) ==
    IF map = <<>> THEN acc
    ELSE LET k == Head(map).k
             val == as_str(Head(map).v)
         IN insert_members(Tail(map),
                IF IsSome(val) /\ k # ""
                THEN [acc EXCEPT
                        !.metadata = hash_insert(@, k, Unwrap(val)),
                        !.metadata_keys = Append(@, k)]
                ELSE acc)

\* faulty variant: the first value sent for a key is kept, a later one ignored
RECURSIVE field_loop_first_wins(_, _)
field_loop_first_wins(fields, acc) ==
    IF fields = <<>> THEN acc
    ELSE LET f == Head(fields) IN
         IF f.name = "metadata"
         THEN LET v == from_str(f.json) IN
              IF IsSome(v) /\ Unwrap(v).type = "Object"
              THEN field_loop_first_wins(Tail(fields),
                                         insert_members(Unwrap(v).map, acc))
              ELSE [acc EXCEPT !.ok = FALSE]
         ELSE LET key == meta_key(f.name) IN
              IF key = "" \/ \E e \in {acc.metadata[i] : i \in 1..Len(acc.metadata)} : e.key = key
              THEN field_loop_first_wins(Tail(fields), acc)
              ELSE field_loop_first_wins(Tail(fields),
                       [acc EXCEPT
                          !.metadata = hash_insert(@, key, f.value),
                          !.metadata_keys = Append(@, key)])

(* upload.rs 103-161: the fields of the form that carry metadata, in the
   order sent; ok is FALSE when the loop returned at 143 *)
RECURSIVE field_loop(_, _)
field_loop(fields, acc) ==
    IF fields = <<>> THEN acc
    ELSE LET f == Head(fields) IN
         IF f.name = "metadata"
         THEN LET v == from_str(f.json) IN
              IF IsSome(v) /\ Unwrap(v).type = "Object"
              THEN field_loop(Tail(fields), insert_members(Unwrap(v).map, acc))
              ELSE [acc EXCEPT !.ok = FALSE]
         ELSE LET key == meta_key(f.name) IN
              IF key = ""
              THEN field_loop(Tail(fields), acc)
              ELSE field_loop(Tail(fields),
                       [acc EXCEPT
                          !.metadata = hash_insert(@, key, f.value),
                          !.metadata_keys = Append(@, key)])

\* faulty variant: the folder is the category stored on the document
request_folder_of_document(category, stored_category) == stored_category

\* upload.rs 119-121, 348-391: the folder of the sidecar and of the storage
\* key is the category field of this request, whatever the document carries
request_folder(category, stored_category) == category

\* [String]::join
RECURSIVE join(_, _)
join(items, sep) ==
    IF items = <<>> THEN ""
    ELSE IF Len(items) = 1 THEN Head(items)
    ELSE Head(items) \o sep \o join(Tail(items), sep)

\* upload.rs 485-492: the metadata_message of the response
metadata_message(metadata_count, metadata_keys) ==
    "Inserted/updated " \o ToString(metadata_count) \o " metadata entries"
      \o (IF metadata_count > 0 THEN ": " \o join(metadata_keys, ",") ELSE "")

\* upload.rs 100-101: HashMap::new(), Vec::new()
NoMetadata == [ok |-> TRUE, metadata |-> <<>>, metadata_keys |-> <<>>]

\* whether the field loop got past every "metadata" field
metadata_accepted(fields) == field_loop(fields, NoMetadata).ok

\* the HashMap built by the field loop: the last value of each key
collect_metadata(fields) == field_loop(fields, NoMetadata).metadata

\* metadata_keys: every non-empty key pushed, in order
collect_metadata_keys(fields) == field_loop(fields, NoMetadata).metadata_keys

\* INSERT INTO document_metadata ... ON CONFLICT (document_id, key) DO UPDATE
RECURSIVE upsert_metadata(_, _, _)
upsert_metadata(rows, document_id, entries) ==
    IF entries = <<>> THEN rows
    ELSE LET e == Head(entries)
             kept == {r \in rows : ~(r.document_id = document_id /\ r.key = e.key)}
         IN upsert_metadata(
                kept \cup {[document_id |-> document_id, key |-> e.key,
                            value |-> Some(e.value)]},
                document_id, Tail(entries))

\* faulty variant: statements take effect one by one, nothing is rolled back
tx_autocommit(committed, before, after) == after

(* upload.rs 220, 448: state.pool.begin() ... tx.commit(); a Transaction
   dropped on an early return rolls back *)
tx_outcome(committed, before, after) == IF committed THEN after ELSE before

\* an upload that ends in an error after its transaction began
UploadFails(key, named, res, docs_tx, vers_tx, meta_tx, store, ids, meta) ==
    /\ ReplyForm(key, named, res, None, meta)
    /\ documents' = tx_outcome(FALSE, documents, docs_tx)
    /\ document_versions' = tx_outcome(FALSE, document_versions, vers_tx)
    /\ document_metadata' = tx_outcome(FALSE, document_metadata, meta_tx)
    /\ storage' = store
    /\ next_id' = ids
    /\ upload_count' = upload_count + 1
    /\ UNCHANGED <<tags, document_tags, audit_logs, clock, uploaded,
                   hard_deleted>>
    /\ UNCHANGED <<perm, tasks, boot>>

\* upload.rs 348-504: the sidecar, the file write, the inserts, the commit
UploadStore(w, key, named, current_user, file, document, next_version_number, docs_tx, ids, meta) ==
    \E category \in w.categories :
      LET file_name == IF IsSome(file.file_name) THEN Unwrap(file.file_name)
                       ELSE "upload.bin"
          file_size == Len(file.bytes)
          \* a new document carries the category of the request
          doc == IF document \in documents THEN document
                 ELSE [document EXCEPT !.category = category]
          docs_in_tx == IF document \in documents THEN docs_tx
                        ELSE (docs_tx \ {document}) \cup {doc}
          folder_name == request_folder(category, doc.category)
          sanitized_name == sanitize_folder_name(Unwrap(folder_name))
          metadata_path == metadata_path_of(sanitized_name)
          need_sidecar == IsSome(folder_name) /\ ~stat_is_ok(storage, metadata_path)
          stored_path == build_storage_path_with_folder(
                             folder_name, doc.id, next_version_number)
          metadata == collect_metadata(meta)
          metadata_keys == collect_metadata_keys(meta)
          version == [document_id |-> doc.id,
                      version_number |-> next_version_number,
                      file_name |-> file_name,
                      file_path |-> stored_path,
                      file_size |-> file_size]
          vers_tx == document_versions \cup {version}
          meta_tx == upsert_metadata(document_metadata, doc.id, metadata)
      IN
      \E sidecar_ok \in (IF need_sidecar THEN w.sidecar_write ELSE {FALSE}) :
        LET store1 == IF need_sidecar /\ sidecar_ok
                      THEN Put(storage, metadata_path,
                               JsonObject(FolderMetadata(sanitized_name,
                                                         current_user, clock)))
                      ELSE storage
            store2 == Put(store1, stored_path, FileObject(file.bytes))
        IN
        \E failing \in w.upload_faults :
          CASE failing = "write" ->
                 UploadFails(key, named, Storage, docs_in_tx, document_versions,
                             document_metadata, store1, ids, meta)
            [] failing = "version" ->
                 UploadFails(key, named, Db, docs_in_tx, document_versions,
                             document_metadata, store2, ids, meta)
            [] failing = "metadata" ->
                 /\ metadata # <<>>
                 /\ UploadFails(key, named, Db, docs_in_tx, vers_tx,
                                document_metadata, store2, ids, meta)
            [] failing = "commit" ->
                 UploadFails(key, named, Db, docs_in_tx, vers_tx, meta_tx, store2, ids, meta)
            [] failing = "none" ->
                 \E audit_ok \in AuditOutcomes(w) :
                   /\ documents' = tx_outcome(TRUE, documents, docs_in_tx)
                   /\ document_versions' =
                          tx_outcome(TRUE, document_versions, vers_tx)
                   /\ document_metadata' =
                          tx_outcome(TRUE, document_metadata, meta_tx)
                   /\ storage' = store2
                   /\ next_id' = ids
                   /\ upload_count' = upload_count + 1
                   /\ uploaded' = uploaded \cup
                          {[document_id |-> doc.id,
                            version_number |-> next_version_number,
                            category |-> category,
                            bytes |-> file.bytes, file_name |-> file_name]}
                   /\ audit_logs' = log_upload(
                          audit_logs, current_user.id, doc.id,
                          next_version_number,
                          [file_name |-> file_name, file_size |-> file_size,
                           metadata_count |-> Len(metadata)],
                          audit_ok)
                   /\ ReplyForm(key, named, after_audit(Ok, audit_ok),
                                Some([document_id |-> doc.id,
                                      version_number |-> next_version_number,
                                      stored_path |-> stored_path,
                                      metadata_count |-> Len(metadata),
                                      metadata_keys |-> metadata_keys,
                                      metadata_message |->
                                          metadata_message(Len(metadata),
                                                           metadata_keys)]),
                                meta)
                   /\ UNCHANGED <<tags, document_tags, clock, hard_deleted>>
                   /\ UNCHANGED <<perm, tasks, boot>>

\* faulty variant: the lookup passes over soft-deleted documents
upload_lookup_active(docs, document_id) == find_active_document(docs, document_id)

\* upload.rs 226-235: SELECT ... FROM documents WHERE id = $1, with no
\* condition on deleted_at
upload_lookup(docs, document_id) == find_document(docs, document_id)

\* faulty variant: the title of the form is applied to the document
existing_document_retitled(doc, title_opt) ==
    IF IsSome(title_opt) /\ Unwrap(title_opt) # <<>>
    THEN [doc EXCEPT !.title = Unwrap(title_opt)] ELSE doc

\* upload.rs 223-243: an upload that names a document uses the row as it
\* was selected; title_opt is read only in the other branch (262-271)
existing_document(doc, title_opt) == doc

\* upload.rs 103-285: the field loop, the file check, the document
UploadForm(w, key, current_user) ==
    \E document_id_field \in DocumentIdInputs(w), meta \in w.metas :
      LET document_id == IF IsSome(document_id_field)
                         THEN parse_uuid(Unwrap(document_id_field))
                         ELSE None
      IN
      IF IsSome(document_id_field) /\ ~IsSome(document_id)
      THEN RefuseForm(key, None,
                      BadRequest("Invalid document_id (must be UUID)"), meta)
      ELSE IF ~metadata_accepted(meta)
      THEN RefuseForm(key, document_id,
                      BadRequest("Invalid metadata JSON; expected an object of string values"),
                      meta)
      ELSE
      \E file_field \in w.files :
        IF ~IsSome(file_field)
        THEN RefuseForm(key, document_id, BadRequest("Missing file"), meta)
        ELSE IF IsSome(document_id)
        THEN LET doc_opt == upload_lookup(documents, Unwrap(document_id)) IN
             IF doc_opt = {}
             THEN RefuseForm(key, document_id,
                             BadRequest("document_id not found"), meta)
             ELSE \E title \in w.titles :
                  LET row == CHOOSE d \in doc_opt : TRUE
                      doc == existing_document(row, title)
                  IN
                  /\ upload_count < w.max_uploads
                  /\ UploadStore(w, key, document_id, current_user,
                                 Unwrap(file_field), doc,
                                 next_version(document_versions, doc.id),
                                 (documents \ {row}) \cup {doc}, next_id, meta)
        ELSE
        \E title \in w.titles :
          IF ~(IsSome(title) /\ Unwrap(title) # <<>>)
          THEN RefuseForm(key, None, BadRequest("Missing title"), meta)
          ELSE LET doc == [id |-> next_id, title |-> Unwrap(title),
                           category |-> None, deleted_at |-> None]
               IN /\ upload_count < w.max_uploads
                  /\ UploadStore(w, key, None, current_user,
                                 Unwrap(file_field), doc, 1,
                                 documents \cup {doc}, next_id + 1, meta)

(* upload.rs: upload_file *)
upload_file(w) ==
    \E key \in w.keys :
      LET auth == from_request_parts(key) IN
      IF auth.res.kind # "Ok"
      THEN Refuse("upload", key, None, auth.res)
      ELSE LET current_user == Unwrap(auth.user)
               allowed == check_permission(current_user.role, "Write")
           IN IF allowed.kind # "Ok"
              THEN Refuse("upload", key, None, allowed)
              ELSE UploadForm(w, key, current_user)

(* ------------------------------ download ------------------------------ *)
\* the version query parameter
VersionInputs == {None} \cup {Some(n) : n \in 1..(MaxUploads + 1)}

\* faulty variant: the default is the oldest version
resolve_version_oldest(vers, document_id, query_version) ==
    IF IsSome(query_version) THEN query_version
    ELSE LET ns == {v.version_number : v \in versions_of(vers, document_id)} IN
         IF ns = {} THEN None ELSE Some(Min(ns))

(* documents.rs 70-89: the explicit version, else MAX(version_number) *)
resolve_version(vers, document_id, query_version) ==
    IF IsSome(query_version) THEN query_version
    ELSE max_version(vers, document_id)

\* faulty variant: the lookup does not filter on deleted_at
download_lookup_any(docs, document_id) == find_document(docs, document_id)

(* documents.rs 54-68: the document must exist and not be soft-deleted *)
download_lookup(docs, document_id) == find_active_document(docs, document_id)

(* documents.rs 54-123, 148-159: what a permitted download request is
   answered with *)
download_result(docs, vers, store, document_id, query_version) ==
    LET version_number == resolve_version(vers, document_id, query_version)
        dv == {v \in versions_of(vers, document_id) :
                 v.version_number = Unwrap(version_number)}
        v == CHOOSE x \in dv : TRUE
    IN
    IF download_lookup(docs, document_id) = {}
    THEN [res |-> NotFound("Document not found or has been deleted"),
          body |-> None]
    ELSE IF ~IsSome(version_number)
    THEN [res |-> NotFound("no versions found for this document"), body |-> None]
    ELSE IF dv = {}
    THEN [res |-> NotFound("document version not found"), body |-> None]
    ELSE IF ~stat_is_ok(store, v.file_path)
    THEN [res |-> Storage, body |-> None]
    ELSE [res |-> Ok,
          body |-> Some([version_number |-> v.version_number,
                         bytes |-> store[v.file_path].bytes,
                         file_name |-> v.file_name])]

(* documents.rs: download_document *)
download_document(w) ==
    \E key \in w.keys :
      LET auth == from_request_parts(key) IN
      IF auth.res.kind # "Ok"
      THEN Refuse("download", key, None, auth.res)
      ELSE
      LET current_user == Unwrap(auth.user)
          allowed == check_permission(current_user.role, "Read")
      IN
      IF allowed.kind # "Ok"
      THEN Refuse("download", key, None, allowed)
      ELSE
      \E document_id \in DocIdInputs, query_version \in w.versions :
        LET result == download_result(documents, document_versions, storage,
                                      document_id, query_version)
        IN
        IF result.res.kind # "Ok"
        THEN Refuse("download", key, Some(document_id), result.res)
        ELSE \E audit_ok \in AuditOutcomes(w) :
               /\ audit_logs' = log_download(
                      audit_logs, current_user.id, document_id,
                      Some(Unwrap(result.body).version_number), audit_ok)
               /\ Reply("download", key, Some(document_id),
                        after_audit(Ok, audit_ok), result.body)
               /\ UNCHANGED <<documents, document_versions, document_metadata,
                              tags, document_tags, storage, next_id, clock,
                              upload_count, uploaded, hard_deleted>>
               /\ UNCHANGED <<perm, tasks, boot>>

(* ----------------------------- soft delete ---------------------------- *)
(* documents.rs 226-237: UPDATE documents SET deleted_at = CURRENT_TIMESTAMP
   WHERE id = $1 AND deleted_at IS NULL *)
\* faulty variant: the UPDATE carries no deleted_at IS NULL
mark_deleted_unguarded(docs, document_id, now) ==
    {IF d.id = document_id
     THEN [d EXCEPT !.deleted_at = Some(now)] ELSE d : d \in docs}

mark_deleted(docs, document_id, now) ==
    {IF d.id = document_id /\ d.deleted_at = None
     THEN [d EXCEPT !.deleted_at = Some(now)] ELSE d : d \in docs}

\* faulty variant: an already deleted document passes the check
already_deleted_never(d) == FALSE

\* documents.rs 206: d.deleted_at.is_some()
already_deleted(d) == IsSome(d.deleted_at)

(* documents.rs: soft_delete_document *)
soft_delete_document(w) ==
    \E key \in w.keys :
      LET auth == from_request_parts(key) IN
      IF auth.res.kind # "Ok"
      THEN Refuse("soft_delete", key, None, auth.res)
      ELSE
      LET current_user == Unwrap(auth.user)
          allowed == check_permission(current_user.role, "Delete")
      IN
      IF allowed.kind # "Ok"
      THEN Refuse("soft_delete", key, None, allowed)
      ELSE
      \E document_id \in DocIdInputs :
        LET document == find_document(documents, document_id)
            doc == CHOOSE d \in document : TRUE
            updated == mark_deleted(documents, document_id, clock)
        IN
        IF document = {}
        THEN Refuse("soft_delete", key, Some(document_id),
                    NotFound("Document not found"))
        ELSE IF already_deleted(doc)
        THEN Refuse("soft_delete", key, Some(document_id),
                    BadRequest("Document is already deleted"))
        ELSE IF updated = documents
        THEN Refuse("soft_delete", key, Some(document_id),
                    BadRequest("Document is already deleted or not found"))
        ELSE \E audit_ok \in AuditOutcomes(w) :
               /\ documents' = updated
               /\ clock' = clock + 1
               /\ audit_logs' = log_delete(
                      audit_logs, current_user.id, document_id,
                      [delete_type |-> "soft", title |-> doc.title,
                       category |-> doc.category],
                      audit_ok)
               /\ Reply("soft_delete", key, Some(document_id),
                        after_audit(Ok, audit_ok),
                        Some([document_id |-> document_id]))
               /\ UNCHANGED <<document_versions, document_metadata, tags,
                              document_tags, storage, next_id, upload_count,
                              uploaded, hard_deleted>>
               /\ UNCHANGED <<perm, tasks, boot>>

(* ----------------------------- hard delete ---------------------------- *)
\* faulty variant: only the newest version's object is deleted
delete_targets_latest(versions) ==
    {v \in versions : \A w \in versions : w.version_number <= v.version_number}

(* documents.rs 348-367: one storage.delete per fetched version row *)
delete_targets(versions) == versions

(* documents.rs 394-397: ON DELETE CASCADE of the rows that reference the
   deleted document *)
cascade_delete(rows, document_id) == {r \in rows : r.document_id # document_id}

\* models.rs: audit_logs.document_id REFERENCES documents(id) ON DELETE SET NULL
set_null(logs, document_id) ==
    [i \in 1..Len(logs) |->
        IF logs[i].document_id = Some(document_id)
        THEN [logs[i] EXCEPT !.document_id = None]
        ELSE logs[i]]

(* documents.rs: hard_delete_document *)
hard_delete_document(w) ==
    \E key \in w.keys :
      LET auth == from_request_parts(key) IN
      IF auth.res.kind # "Ok"
      THEN Refuse("hard_delete", key, None, auth.res)
      ELSE
      LET current_user == Unwrap(auth.user)
          allowed == check_permission(current_user.role, "Delete")
      IN
      IF allowed.kind # "Ok"
      THEN Refuse("hard_delete", key, None, allowed)
      ELSE
      \E document_id \in DocIdInputs :
        LET document == find_document(documents, document_id)
            doc == CHOOSE d \in document : TRUE
            versions == versions_of(document_versions, document_id)
            \* the storage.delete calls made, one per element
            calls == {[version_number |-> v.version_number, path |-> v.file_path] :
                        v \in delete_targets(versions)}
        IN
        IF document = {}
        THEN Refuse("hard_delete", key, Some(document_id),
                    NotFound("Document not found"))
        ELSE
        \E failed \in (IF w.storage_delete_fails
                    THEN SUBSET {c.path : c \in calls} ELSE {{}}) :
        \E audit_ok \in AuditOutcomes(w) :
        \E delete_ok \in w.row_delete :
          LET logged == log_delete(
                            audit_logs, current_user.id, document_id,
                            [delete_type |-> "hard", title |-> doc.title,
                             category |-> doc.category,
                             versions_deleted |-> Cardinality(versions),
                             files_deleted |-> Cardinality(versions)],
                            audit_ok)
              body == [document_id |-> document_id,
                       versions_deleted |-> Cardinality(versions),
                       storage_deletes |-> calls]
          IN
          /\ storage' = Remove(storage, {c.path : c \in calls} \ failed)
          /\ IF delete_ok
             THEN /\ documents' = documents \ document
                  /\ document_versions' = cascade_delete(document_versions, document_id)
                  /\ document_metadata' = cascade_delete(document_metadata, document_id)
                  /\ document_tags' = cascade_delete(document_tags, document_id)
                  /\ audit_logs' = set_null(logged, document_id)
                  /\ uploaded' = {u \in uploaded : u.document_id # document_id}
                  /\ hard_deleted' = hard_deleted \cup {document_id}
                  /\ Reply("hard_delete", key, Some(document_id),
                           after_audit(Ok, audit_ok), Some(body))
             ELSE /\ audit_logs' = logged
                  /\ Reply("hard_delete", key, Some(document_id), Db, None)
                  /\ UNCHANGED <<documents, document_versions, document_metadata,
                                 document_tags, uploaded, hard_deleted>>
          /\ UNCHANGED <<tags, next_id, clock, upload_count>>
          /\ UNCHANGED <<perm, tasks, boot>>

(* --------------------------- document listing ------------------------- *)
PageInputs == {None, Some(2)}
PageSizeInputs == {None, Some(1)}
TitleFilterInputs == {None, Some(<<"t">>)}
CategoryFilterInputs == {None, Some(<<"F">>)}
ListInputs == [page : PageInputs, page_size : PageSizeInputs,
               title : TitleFilterInputs, category : CategoryFilterInputs]
\* the paging and filter parameters of the listing workload: a page of 0
\* and a page_size of 0 and above the maximum among them
ListPagingInputs ==
    [page : {None, Some(0), Some(1), Some(2), Some(3)},
     page_size : {None, Some(0), Some(1), Some(2), Some(101)},
     title : {None, Some(<<"t">>), Some(<<"x">>)},
     category : CategoryFilterInputs]
DefaultPage == 1
DefaultPageSize == 20
MaxPageSize == 100

unwrap_or(o, default) == IF IsSome(o) THEN Unwrap(o) ELSE default
max2(a, b) == IF a >= b THEN a ELSE b
min2(a, b) == IF a <= b THEN a ELSE b

\* ILIKE compares without regard to case
lower(c) == IF c = "T" THEN "t" ELSE IF c = "F" THEN "f"
            ELSE IF c = "D" THEN "d" ELSE c
lower_str(s) == [i \in 1..Len(s) |-> lower(s[i])]
\* d.title ILIKE '%' || $1 || '%'
ilike_contains(title, pattern) ==
    \E i \in 1..(Len(title) - Len(pattern) + 1) :
        SubSeq(lower_str(title), i, i + Len(pattern) - 1) = lower_str(pattern)

(* documents.rs 468-476, 510-512: the WHERE clause of both queries *)
list_filter(docs, title_filter, category_filter) ==
    {d \in docs :
        /\ d.deleted_at = None
        /\ (title_filter = <<>> \/ ilike_contains(d.title, title_filter))
        /\ (~IsSome(category_filter) \/ d.category = category_filter)}

\* ORDER BY d.created_at DESC: a later document has the larger id
RECURSIVE newest_first(_)
newest_first(ids) ==
    IF ids = {} THEN <<>>
    ELSE <<Max(ids)>> \o newest_first(ids \ {Max(ids)})

\* faulty variant: OFFSET is left out, every page is the first page
limit_offset_first_page(rows, limit, offset) ==
    SubSeq(rows, 1, IF limit < Len(rows) THEN limit ELSE Len(rows))

\* LIMIT $3 OFFSET $4
limit_offset(rows, limit, offset) ==
    SubSeq(rows, offset + 1,
           IF offset + limit < Len(rows) THEN offset + limit ELSE Len(rows))

(* documents.rs 486-496: SELECT DISTINCT ON (document_id) ... ORDER BY
   document_id, version_number DESC: the first row of each document *)
latest_versions(vers, id) ==
    {v \in versions_of(vers, id) :
        \A u \in versions_of(vers, id) : u.version_number <= v.version_number}

(* documents.rs 451-530: the ListDocumentsResponse for the query parameters *)
list_result(docs, vers, params) ==
    LET page == max2(unwrap_or(params.page, DefaultPage), 1)
        page_size == min2(unwrap_or(params.page_size, DefaultPageSize), MaxPageSize)
        offset == (page - 1) * page_size
        title_filter == unwrap_or(params.title, <<>>)
        category_filter == params.category
        matching == list_filter(docs, title_filter, category_filter)
        ids == limit_offset(newest_first({d.id : d \in matching}), page_size, offset)
    IN [data |-> [i \in 1..Len(ids) |->
                    LET lv == latest_versions(vers, ids[i]) IN
                    [id |-> ids[i],
                     latest_version_number |->
                         IF lv = {} THEN None
                         ELSE Some((CHOOSE v \in lv : TRUE).version_number),
                     latest_file_name |->
                         IF lv = {} THEN None
                         ELSE Some((CHOOSE v \in lv : TRUE).file_name),
                     latest_file_size |->
                         IF lv = {} THEN None
                         ELSE Some((CHOOSE v \in lv : TRUE).file_size)]],
        page |-> page, page_size |-> page_size,
        total |-> Cardinality(matching)]

(* documents.rs: list_documents; it takes no CurrentUser, so the header is
   never looked at *)
list_documents(w) ==
    \E key \in w.keys, params \in w.list_params :
      /\ Reply("list", key, None, Ok,
               Some(list_result(documents, document_versions, params)))
      /\ UNCHANGED state
      /\ UNCHANGED <<perm, tasks, boot>>

(* ---------------------------- audit listing --------------------------- *)
\* ORDER BY created_at DESC
reversed(s) == [i \in 1..Len(s) |-> s[Len(s) + 1 - i]]

(* routes/audit.rs: get_actions *)
get_actions(w) ==
    \E key \in w.keys :
      LET auth == from_request_parts(key) IN
      IF auth.res.kind # "Ok"
      THEN Refuse("audit", key, None, auth.res)
      ELSE
      LET current_user == Unwrap(auth.user)
          allowed == check_permission(current_user.role, "GetActions")
      IN
      IF allowed.kind # "Ok"
      THEN Refuse("audit", key, None, allowed)
      ELSE /\ Reply("audit", key, None, Ok,
                    Some([data |-> reversed(audit_logs),
                          total |-> Len(audit_logs)]))
           /\ UNCHANGED state
           /\ UNCHANGED <<perm, tasks, boot>>

(* ------------------------------- folders ------------------------------ *)
FolderNameInputs == {<<" ">>, <<"F">>, <<"F", " ", "D">>, <<" ", "F", "_", "D">>}

starts_with(key, prefix) ==
    Len(key) >= Len(prefix) /\ SubSeq(key, 1, Len(prefix)) = prefix
\* Operator::list(prefix): the keys under the prefix
list_entries(store, prefix) == {k \in DOMAIN store : starts_with(k, prefix)}
\* the part of a key before its first '/'
RECURSIVE first_component(_)
first_component(key) ==
    IF key = <<>> \/ Head(key) = "/" THEN <<>>
    ELSE <<Head(key)>> \o first_component(Tail(key))
\* Operator::list(""): the top-level entries, each a directory "name/"
top_level_folders(store) == {first_component(k) : k \in DOMAIN store}

\* faulty variant: only the sidecar decides whether the folder exists
create_folder_result_sidecar_only(store, name, current_user, now, write_ok) ==
    LET folder_name == trim(name)
        sanitized_name == sanitize_folder_name(folder_name)
        folder_path == sanitized_name \o <<"/">>
        folder_exists == list_entries(store, folder_path) # {}
        metadata_path == metadata_path_of(sanitized_name)
        metadata_exists == stat_is_ok(store, metadata_path)
    IN
    IF folder_name = <<>>
    THEN [res |-> BadRequest("Folder name cannot be empty"), store |-> store,
          body |-> None]
    ELSE IF metadata_exists
    THEN [res |-> BadRequest("Folder already exists"), store |-> store,
          body |-> None]
    ELSE IF ~write_ok
    THEN [res |-> Storage, store |-> store, body |-> None]
    ELSE [res |-> Ok,
          store |-> Put(store, metadata_path,
                        JsonObject(FolderMetadata(sanitized_name, current_user,
                                                  now))),
          body |-> Some([folder_name |-> sanitized_name,
                         created_by |-> current_user.id])]

\* routes/folders.rs 129-209: create_folder after the permission check
create_folder_result(store, name, current_user, now, write_ok) ==
    LET folder_name == trim(name)
        sanitized_name == sanitize_folder_name(folder_name)
        folder_path == sanitized_name \o <<"/">>
        folder_exists == list_entries(store, folder_path) # {}
        metadata_path == metadata_path_of(sanitized_name)
        metadata_exists == stat_is_ok(store, metadata_path)
    IN
    IF folder_name = <<>>
    THEN [res |-> BadRequest("Folder name cannot be empty"), store |-> store,
          body |-> None]
    ELSE IF folder_exists \/ metadata_exists
    THEN [res |-> BadRequest("Folder already exists"), store |-> store,
          body |-> None]
    ELSE IF ~write_ok
    THEN [res |-> Storage, store |-> store, body |-> None]
    ELSE [res |-> Ok,
          store |-> Put(store, metadata_path,
                        JsonObject(FolderMetadata(sanitized_name, current_user,
                                                  now))),
          body |-> Some([folder_name |-> sanitized_name,
                         created_by |-> current_user.id])]

(* routes/folders.rs: create_folder *)
create_folder(w) ==
    \E key \in w.keys :
      LET auth == from_request_parts(key) IN
      IF auth.res.kind # "Ok"
      THEN Refuse("create_folder", key, None, auth.res)
      ELSE
      LET current_user == Unwrap(auth.user)
          allowed == check_permission(current_user.role, "Write")
      IN
      IF allowed.kind # "Ok"
      THEN Refuse("create_folder", key, None, allowed)
      ELSE
      \E name \in w.folder_names, write_ok \in w.folder_write :
        LET done == create_folder_result(storage, name, current_user, clock,
                                         write_ok)
        IN /\ storage' = done.store
           /\ Reply("create_folder", key, None, done.res, done.body)
           /\ UNCHANGED <<documents, document_versions, document_metadata,
                          tags, document_tags, audit_logs, next_id, clock,
                          upload_count, uploaded, hard_deleted>>
           /\ UNCHANGED <<perm, tasks, boot>>

\* faulty variant: a folder without a sidecar is listed too, with no creator
list_folders_result_every_prefix(store) ==
    LET candidates == {f \in top_level_folders(store) : f # <<>>}
        folders == {IF stat_is_ok(store, metadata_path_of(f))
                       /\ store[metadata_path_of(f)].kind = "json"
                    THEN Unwrap(store[metadata_path_of(f)].json)
                    ELSE [folder_name |-> f, created_by |-> "",
                          created_by_username |-> <<>>, created_at |-> 0] :
                    f \in candidates}
    IN [folders |-> folders, total |-> Cardinality(folders)]

(* routes/folders.rs 44-106: the top-level entries that end in '/', each
   kept when its sidecar can be read and parsed *)
list_folders_result(store) ==
    LET candidates == {f \in top_level_folders(store) : f # <<>>}
        readable == {f \in candidates :
                       /\ stat_is_ok(store, metadata_path_of(f))
                       /\ store[metadata_path_of(f)].kind = "json"}
        folders == {Unwrap(store[metadata_path_of(f)].json) : f \in readable}
    IN [folders |-> folders, total |-> Cardinality(folders)]

(* routes/folders.rs: list_folders *)
list_folders(w) ==
    \E key \in w.keys :
      LET auth == from_request_parts(key) IN
      IF auth.res.kind # "Ok"
      THEN Refuse("list_folders", key, None, auth.res)
      ELSE
      LET current_user == Unwrap(auth.user)
          allowed == check_permission(current_user.role, "Read")
      IN
      IF allowed.kind # "Ok"
      THEN Refuse("list_folders", key, None, allowed)
      ELSE
      /\ Reply("list_folders", key, None, Ok, Some(list_folders_result(storage)))
      /\ UNCHANGED state
         /\ UNCHANGED <<perm, tasks, boot>>

(* -------------------------------- tags -------------------------------- *)
TagListInputs ==
    {<<>>, <<<<" ">>>>, <<<<"x">>>>, <<<<" ">>, <<"x", " ">>>>,
     <<<<"T">>, <<"t">>, <<>>>>, <<<<"t">>, <<"t">>>>}

\* faulty variant: an existing tag is matched without regard to case
RECURSIVE process_tags_ignores_case(_, _, _, _, _)
process_tags_ignores_case(names, document_id, tag_rows, link_rows, tag_infos) ==
    IF names = <<>>
    THEN [tags |-> tag_rows, links |-> link_rows, infos |-> tag_infos]
    ELSE
    LET tag_name == trim(Head(names))
        existing == {t \in tag_rows : lower_str(t.name) = lower_str(tag_name)}
        tag_was_created == existing = {}
        tag == IF tag_was_created
               THEN [id |-> Cardinality(tag_rows) + 1, name |-> tag_name]
               ELSE CHOOSE t \in existing : TRUE
        link == [document_id |-> document_id, tag_id |-> tag.id]
    IN
    IF tag_name = <<>>
    THEN process_tags_ignores_case(Tail(names), document_id, tag_rows, link_rows,
                                   tag_infos)
    ELSE process_tags_ignores_case(Tail(names), document_id,
                      tag_rows \cup {tag}, link_rows \cup {link},
                      Append(tag_infos,
                             [tag_id |-> tag.id, tag_name |-> tag.name,
                              tag_created |-> tag_was_created]))

\* routes/tags.rs: the loop over request.tags
RECURSIVE process_tags(_, _, _, _, _)
process_tags(names, document_id, tag_rows, link_rows, tag_infos) ==
    IF names = <<>>
    THEN [tags |-> tag_rows, links |-> link_rows, infos |-> tag_infos]
    ELSE
    LET tag_name == trim(Head(names))
        existing == {t \in tag_rows : t.name = tag_name}
        tag_was_created == existing = {}
        tag == IF tag_was_created
               THEN [id |-> Cardinality(tag_rows) + 1, name |-> tag_name]
               ELSE CHOOSE t \in existing : TRUE
        link == [document_id |-> document_id, tag_id |-> tag.id]
    IN
    IF tag_name = <<>>
    THEN process_tags(Tail(names), document_id, tag_rows, link_rows, tag_infos)
    ELSE process_tags(Tail(names), document_id,
                      tag_rows \cup {tag}, link_rows \cup {link},
                      Append(tag_infos,
                             [tag_id |-> tag.id, tag_name |-> tag.name,
                              tag_created |-> tag_was_created]))

\* faulty variant: the document is looked up without the deleted_at filter
add_tags_result_any_document(docs, tag_rows, link_rows, document_id, names) ==
    LET done == process_tags(names, document_id, tag_rows, link_rows, <<>>)
        unchanged(res) == [res |-> res, tags |-> tag_rows, links |-> link_rows,
                           body |-> None]
    IN
    IF names = <<>>
    THEN unchanged(BadRequest("Tags list cannot be empty"))
    ELSE IF find_document(docs, document_id) = {}
    THEN unchanged(NotFound("Document not found or has been deleted"))
    ELSE IF done.infos = <<>>
    THEN unchanged(BadRequest("No valid tags were processed"))
    ELSE [res |-> Ok, tags |-> done.tags, links |-> done.links,
          body |-> Some([document_id |-> document_id, tags |-> done.infos,
                         total |-> Len(done.infos)])]

\* routes/tags.rs 39-132: add_tags_to_document after the permission check
add_tags_result(docs, tag_rows, link_rows, document_id, names) ==
    LET done == process_tags(names, document_id, tag_rows, link_rows, <<>>)
        unchanged(res) == [res |-> res, tags |-> tag_rows, links |-> link_rows,
                           body |-> None]
    IN
    IF names = <<>>
    THEN unchanged(BadRequest("Tags list cannot be empty"))
    ELSE IF find_active_document(docs, document_id) = {}
    THEN unchanged(NotFound("Document not found or has been deleted"))
    ELSE IF done.infos = <<>>
    THEN unchanged(BadRequest("No valid tags were processed"))
    ELSE [res |-> Ok, tags |-> done.tags, links |-> done.links,
          body |-> Some([document_id |-> document_id, tags |-> done.infos,
                         total |-> Len(done.infos)])]

(* routes/tags.rs: add_tags_to_document *)
add_tags_to_document(w) ==
    \E key \in w.keys :
      LET auth == from_request_parts(key) IN
      IF auth.res.kind # "Ok"
      THEN Refuse("tags", key, None, auth.res)
      ELSE
      LET current_user == Unwrap(auth.user)
          allowed == check_permission(current_user.role, "Write")
      IN
      IF allowed.kind # "Ok"
      THEN Refuse("tags", key, None, allowed)
      ELSE
      \E document_id \in DocIdInputs, names \in w.tag_lists :
        LET done == add_tags_result(documents, tags, document_tags,
                                    document_id, names)
        IN /\ tags' = done.tags
           /\ document_tags' = done.links
           /\ Reply("tags", key, Some(document_id), done.res, done.body)
           /\ UNCHANGED <<documents, document_versions, document_metadata,
                          audit_logs, storage, next_id, clock, upload_count,
                          uploaded, hard_deleted>>
           /\ UNCHANGED <<perm, tasks, boot>>

(* -------------------------------- login ------------------------------- *)
UsernameInputs == {<<" ">>, <<"v">>, <<"v", " ">>, <<"e">>, <<"g">>, <<"z">>}
PasswordInputs == {<<" ">>, <<"p", "v">>, <<"p", "e">>}

\* faulty variant: an unknown username is told apart from a wrong password
login_result_reveals_user(username, password) ==
    LET user == {u \in Users : u.username = trim(username)}
        invalid == BadRequest("Invalid username or password")
    IN
    IF trim(username) = <<>>
    THEN [res |-> BadRequest("Username cannot be empty"), body |-> None]
    ELSE IF trim(password) = <<>>
    THEN [res |-> BadRequest("Password cannot be empty"), body |-> None]
    ELSE IF user = {}
    THEN [res |-> BadRequest("User not found"), body |-> None]
    ELSE LET u == CHOOSE x \in user : TRUE IN
         IF ~IsSome(u.password) THEN [res |-> invalid, body |-> None]
         ELSE IF Unwrap(u.password) # trim(password)
         THEN [res |-> invalid, body |-> None]
         ELSE [res |-> Ok,
               body |-> Some([api_key |-> u.api_key, username |-> u.username,
                              user_id |-> u.id, role |-> u.role])]

\* faulty variant: a successful login mints a token instead of returning the stored key
login_result_mints_token(username, password) ==
    LET user == {u \in Users : u.username = trim(username)}
        invalid == BadRequest("Invalid username or password")
    IN
    IF trim(username) = <<>>
    THEN [res |-> BadRequest("Username cannot be empty"), body |-> None]
    ELSE IF trim(password) = <<>>
    THEN [res |-> BadRequest("Password cannot be empty"), body |-> None]
    ELSE IF user = {}
    THEN [res |-> invalid, body |-> None]
    ELSE LET u == CHOOSE x \in user : TRUE IN
         IF ~IsSome(u.password) THEN [res |-> invalid, body |-> None]
         ELSE IF Unwrap(u.password) # trim(password)
         THEN [res |-> invalid, body |-> None]
         ELSE [res |-> Ok,
               body |-> Some([api_key |-> "key-new", username |-> u.username,
                              user_id |-> u.id, role |-> u.role])]

\* routes/login.rs: the result of login on a request body
login_result(username, password) ==
    LET user == {u \in Users : u.username = trim(username)}
        invalid == BadRequest("Invalid username or password")
    IN
    IF trim(username) = <<>>
    THEN [res |-> BadRequest("Username cannot be empty"), body |-> None]
    ELSE IF trim(password) = <<>>
    THEN [res |-> BadRequest("Password cannot be empty"), body |-> None]
    ELSE IF user = {}
    THEN [res |-> invalid, body |-> None]
    ELSE LET u == CHOOSE x \in user : TRUE IN
         IF ~IsSome(u.password) THEN [res |-> invalid, body |-> None]
         ELSE IF Unwrap(u.password) # trim(password)
         THEN [res |-> invalid, body |-> None]
         ELSE [res |-> Ok,
               body |-> Some([api_key |-> u.api_key, username |-> u.username,
                              user_id |-> u.id, role |-> u.role])]

(* routes/login.rs: login; it takes no CurrentUser and runs no statement
   but the SELECT *)
login(w) ==
    \E username \in w.usernames, password \in w.passwords :
      LET done == login_result(username, password) IN
      /\ Reply("login", None, None, done.res, done.body)
      /\ UNCHANGED state
      /\ UNCHANGED <<perm, tasks, boot>>

(* ------------------------- concurrent requests ------------------------ *)
(* The handlers are async fns that tokio runs concurrently: between two
   awaits of one request (a statement on the pool, a call of the object
   store) any step of another request may take place. A task is one request
   in flight; the steps below are the handler cut at the awaits that read or
   write shared rows and objects. *)
NumTasks == 2
Tasks == 1..NumTasks

NoResult == [kind |-> "", msg |-> ""]
IdleTask ==
    [pc |-> "idle", op |-> "", key |-> None, document_id |-> None,
     new_doc |-> None, version_number |-> 0, category |-> None,
     file |-> None, meta |-> <<>>, failing |-> "none", name |-> <<>>,
     now |-> 0, names |-> <<>>, i |-> 0, tag_id |-> None, created |-> <<>>,
     tag_created |-> FALSE, conflicted |-> FALSE, doc |-> None,
     versions |-> {}, failed |-> {},
     res |-> NoResult, body |-> None]

\* a task that is not in the middle of a request
Free(t) == tasks[t].pc \in {"idle", "done"}

\* the request of task t returns res and body
Return(t, tk, res, body, form) ==
    /\ tasks' = [tasks EXCEPT ![t] = [tk EXCEPT !.pc = "done", !.res = res,
                                               !.body = body]]
    /\ resp' = Response(tk.op, tk.key, tk.document_id, res, body, form)

\* the request of task t goes on to its next await
Goto(t, tk, pc) ==
    /\ tasks' = [tasks EXCEPT ![t] = [tk EXCEPT !.pc = pc]]
    /\ UNCHANGED resp

\* faulty variant: the table has no such constraint
unique_violation_never(vers, document_id, version_number) == FALSE

(* The uniqueness of (document_id, version_number) in document_versions.
   The migrations are not part of the source tree; the constraint is the one
   the specification names. An INSERT of a pair that a committed row holds
   fails with a unique violation. *)
unique_violation(vers, document_id, version_number) ==
    \E v \in vers :
        v.document_id = document_id /\ v.version_number = version_number

(* An INSERT of a pair that a row of another open transaction holds waits
   until that transaction commits or rolls back. *)
insert_waits(ts, t, document_id, version_number) ==
    \E u \in DOMAIN ts :
        /\ u # t
        /\ ts[u].op = "upload"
        /\ ts[u].pc = "inserted"
        /\ ts[u].document_id = Some(document_id)
        /\ ts[u].version_number = version_number

(* upload.rs 74-285: the extractor, the permission check, the field loop,
   begin, the document looked up or inserted, MAX(version_number) + 1 *)
upload_begin(w, t) ==
    /\ Free(t)
    /\ upload_count < w.max_uploads
    /\ \E key \in w.keys, document_id_field \in DocumentIdInputs(w),
          meta \in w.metas, file_field \in w.files, title \in w.titles,
          category \in w.categories, failing \in w.upload_faults :
         LET auth == from_request_parts(key)
             allowed == check_permission(Unwrap(auth.user).role, "Write")
             document_id == IF IsSome(document_id_field)
                            THEN parse_uuid(Unwrap(document_id_field))
                            ELSE None
             tk == [IdleTask EXCEPT !.op = "upload", !.key = key,
                                    !.document_id = document_id,
                                    !.category = category, !.file = file_field,
                                    !.meta = meta, !.failing = failing]
             refuse(res) == /\ Return(t, tk, res, None, Some(meta))
                            /\ UNCHANGED state
                            /\ UNCHANGED <<perm, boot>>
         IN
         /\ failing = "metadata" => collect_metadata(meta) # <<>>
         /\ IF auth.res.kind # "Ok" THEN refuse(auth.res)
            ELSE IF allowed.kind # "Ok" THEN refuse(allowed)
            ELSE IF IsSome(document_id_field) /\ ~IsSome(document_id)
            THEN refuse(BadRequest("Invalid document_id (must be UUID)"))
            ELSE IF ~metadata_accepted(meta)
            THEN refuse(BadRequest("Invalid metadata JSON; expected an object of string values"))
            ELSE IF ~IsSome(file_field) THEN refuse(BadRequest("Missing file"))
            ELSE IF IsSome(document_id)
            THEN IF upload_lookup(documents, Unwrap(document_id)) = {}
                 THEN refuse(BadRequest("document_id not found"))
                 ELSE /\ Goto(t, [tk EXCEPT
                                    !.doc = Some(CHOOSE d \in upload_lookup(
                                                     documents,
                                                     Unwrap(document_id)) : TRUE),
                                    !.version_number =
                                     next_version(document_versions,
                                                  Unwrap(document_id))],
                              "begun")
                      /\ upload_count' = upload_count + 1
                      /\ UNCHANGED <<documents, document_versions,
                                     document_metadata, tags, document_tags,
                                     audit_logs, storage, next_id, clock,
                                     uploaded, hard_deleted>>
                      /\ UNCHANGED <<perm, boot>>
            ELSE IF ~(IsSome(title) /\ Unwrap(title) # <<>>)
            THEN refuse(BadRequest("Missing title"))
            ELSE /\ Goto(t, [tk EXCEPT
                               !.document_id = Some(next_id),
                               !.new_doc = Some([id |-> next_id,
                                                 title |-> Unwrap(title),
                                                 category |-> category,
                                                 deleted_at |-> None]),
                               !.version_number = 1],
                         "begun")
                 /\ next_id' = next_id + 1
                 /\ upload_count' = upload_count + 1
                 /\ UNCHANGED <<documents, document_versions, document_metadata,
                                tags, document_tags, audit_logs, storage, clock,
                                uploaded, hard_deleted>>
                 /\ UNCHANGED <<perm, boot>>

(* upload.rs 348-402: the sidecar of the folder, then the write of the file
   under the key of the document and version *)
upload_write(w, t) ==
    LET tk == tasks[t]
        current_user == Unwrap(from_request_parts(tk.key).user)
        document == IF IsSome(tk.new_doc) THEN Unwrap(tk.new_doc)
                    ELSE Unwrap(tk.doc)
        folder_name == request_folder(tk.category, document.category)
        sanitized_name == sanitize_folder_name(Unwrap(folder_name))
        metadata_path == metadata_path_of(sanitized_name)
        need_sidecar == IsSome(folder_name) /\ ~stat_is_ok(storage, metadata_path)
        stored_path == build_storage_path_with_folder(
                           folder_name, Unwrap(tk.document_id), tk.version_number)
    IN
    /\ tk.op = "upload"
    /\ tk.pc = "begun"
    /\ \E sidecar_ok \in (IF need_sidecar THEN w.sidecar_write ELSE {FALSE}) :
         LET store1 == IF need_sidecar /\ sidecar_ok
                       THEN Put(storage, metadata_path,
                                JsonObject(FolderMetadata(sanitized_name,
                                                          current_user, clock)))
                       ELSE storage
         IN IF tk.failing = "write"
            THEN /\ storage' = store1
                 /\ Return(t, tk, Storage, None, Some(tk.meta))
            ELSE /\ storage' = Put(store1, stored_path,
                                   FileObject(Unwrap(tk.file).bytes))
                 /\ Goto(t, tk, "written")
    /\ UNCHANGED <<documents, document_versions, document_metadata, tags,
                   document_tags, audit_logs, next_id, clock, upload_count,
                   uploaded, hard_deleted>>
    /\ UNCHANGED <<perm, boot>>

\* faulty variant: document_versions.document_id references nothing
references_missing_never(docs, document_id, new_doc) == FALSE

\* models.rs 38: document_versions.document_id is a foreign key to
\* documents; the row the transaction inserted itself satisfies it
references_missing(docs, document_id, new_doc) ==
    ~IsSome(new_doc) /\ find_document(docs, document_id) = {}

(* upload.rs 405-422: INSERT INTO document_versions inside the transaction *)
upload_insert(w, t) ==
    LET tk == tasks[t] IN
    /\ tk.op = "upload"
    /\ tk.pc = "written"
    /\ ~insert_waits(tasks, t, Unwrap(tk.document_id), tk.version_number)
    /\ IF \/ tk.failing = "version"
          \/ references_missing(documents, Unwrap(tk.document_id), tk.new_doc)
          \/ unique_violation(document_versions, Unwrap(tk.document_id),
                              tk.version_number)
       THEN Return(t, tk, Db, None, Some(tk.meta))
       ELSE Goto(t, tk, "inserted")
    /\ UNCHANGED state
    /\ UNCHANGED <<perm, boot>>

(* upload.rs 424-503: the metadata upsert, the commit, the audit entry and
   the response *)
upload_commit(w, t) ==
    LET tk == tasks[t]
        current_user == Unwrap(from_request_parts(tk.key).user)
        file == Unwrap(tk.file)
        file_name == IF IsSome(file.file_name) THEN Unwrap(file.file_name)
                     ELSE "upload.bin"
        document_id == Unwrap(tk.document_id)
        document == IF IsSome(tk.new_doc) THEN Unwrap(tk.new_doc)
                    ELSE Unwrap(tk.doc)
        stored_path == build_storage_path_with_folder(
                           request_folder(tk.category, document.category),
                           document_id, tk.version_number)
        metadata == collect_metadata(tk.meta)
        version == [document_id |-> document_id,
                    version_number |-> tk.version_number,
                    file_name |-> file_name,
                    file_path |-> stored_path,
                    file_size |-> Len(file.bytes)]
    IN
    /\ tk.op = "upload"
    /\ tk.pc = "inserted"
    /\ IF tk.failing \in {"metadata", "commit"}
       THEN /\ Return(t, tk, Db, None, Some(tk.meta))
            /\ UNCHANGED state
       ELSE \E audit_ok \in AuditOutcomes(w) :
              /\ documents' = documents \cup
                     (IF IsSome(tk.new_doc) THEN {Unwrap(tk.new_doc)} ELSE {})
              /\ document_versions' = document_versions \cup {version}
              /\ document_metadata' =
                     upsert_metadata(document_metadata, document_id, metadata)
              /\ uploaded' = uploaded \cup
                     {[document_id |-> document_id,
                       version_number |-> tk.version_number,
                       category |-> tk.category,
                       bytes |-> file.bytes, file_name |-> file_name]}
              /\ audit_logs' = log_upload(
                     audit_logs, current_user.id, document_id,
                     tk.version_number,
                     [file_name |-> file_name, file_size |-> Len(file.bytes),
                      metadata_count |-> Len(metadata)],
                     audit_ok)
              /\ Return(t, tk, after_audit(Ok, audit_ok),
                        Some([document_id |-> document_id,
                              version_number |-> tk.version_number,
                              stored_path |-> stored_path,
                              metadata_count |-> Len(metadata),
                              metadata_keys |-> collect_metadata_keys(tk.meta),
                              metadata_message |->
                                  metadata_message(
                                      Len(metadata),
                                      collect_metadata_keys(tk.meta))]),
                        Some(tk.meta))
              /\ UNCHANGED <<tags, document_tags, storage, next_id, clock,
                             upload_count, hard_deleted>>
    /\ UNCHANGED <<perm, boot>>

(* routes/folders.rs 122-168: the extractor, the permission check, the name,
   and the existence check: the listing of the prefix and the stat of the
   sidecar *)
create_folder_check(w, t) ==
    /\ Free(t)
    /\ \E key \in w.keys, name \in w.folder_names :
         LET auth == from_request_parts(key)
             allowed == check_permission(Unwrap(auth.user).role, "Write")
             checked == create_folder_result(storage, name,
                                             Unwrap(auth.user), clock, TRUE)
             tk == [IdleTask EXCEPT
                      !.op = "create_folder", !.key = key,
                      !.name = sanitize_folder_name(trim(name)),
                      !.now = clock]
         IN IF auth.res.kind # "Ok" THEN Return(t, tk, auth.res, None, None)
            ELSE IF allowed.kind # "Ok" THEN Return(t, tk, allowed, None, None)
            ELSE IF checked.res.kind # "Ok"
            THEN Return(t, tk, checked.res, None, None)
            ELSE Goto(t, tk, "checked")
    /\ UNCHANGED state
    /\ UNCHANGED <<perm, boot>>

(* routes/folders.rs 170-209: the metadata, the write of the sidecar and the
   response *)
create_folder_write(w, t) ==
    LET tk == tasks[t]
        current_user == Unwrap(from_request_parts(tk.key).user)
        metadata == FolderMetadata(tk.name, current_user, tk.now)
    IN
    /\ tk.op = "create_folder"
    /\ tk.pc = "checked"
    /\ \E write_ok \in w.folder_write :
         IF write_ok
         THEN /\ storage' = Put(storage, metadata_path_of(tk.name),
                                JsonObject(metadata))
              /\ Return(t, tk, Ok,
                        Some([folder_name |-> tk.name,
                              created_by |-> current_user.id]),
                        None)
         ELSE /\ storage' = storage
              /\ Return(t, tk, Storage, None, None)
    /\ UNCHANGED <<documents, document_versions, document_metadata, tags,
                   document_tags, audit_logs, next_id, clock, upload_count,
                   uploaded, hard_deleted>>
    /\ UNCHANGED <<perm, boot>>

(* routes/tags.rs: add_tags_to_document cut at its awaits. Every statement
   runs on the pool, outside any transaction, so each takes effect by
   itself and the statements of two requests interleave *)
\* faulty variant: the table has no unique pair and stores a second row
insert_link_no_constraint(rows, document_id, tag_id) ==
    LET link == [document_id |-> document_id, tag_id |-> tag_id] IN
    IF link \in rows
    THEN rows \cup {[document_id |-> document_id, tag_id |-> tag_id, copy |-> 2]}
    ELSE rows \cup {link}

\* document_tags is unique on (document_id, tag_id): INSERT ... ON CONFLICT
\* DO NOTHING of a pair already there stores nothing
insert_link(rows, document_id, tag_id) ==
    rows \cup {[document_id |-> document_id, tag_id |-> tag_id]}

\* the tag names of the request from the i-th on that are not blank
next_name(names, i) ==
    LET rest == {j \in i..Len(names) : trim(names[j]) # <<>>} IN
    IF rest = {} THEN Len(names) + 1
    ELSE CHOOSE j \in rest : \A k \in rest : j <= k

\* the TagInfo pushed for the tag in hand
tag_info(tk) ==
    [tag_id |-> Unwrap(tk.tag_id), tag_name |-> trim(tk.names[tk.i]),
     tag_created |-> tk.tag_created]

\* 33-53: authentication, permission, the empty list, the document lookup
add_tags_begin(w, t) ==
    /\ Free(t)
    /\ \E key \in w.keys :
         LET auth == from_request_parts(key)
             tk0 == [IdleTask EXCEPT !.op = "tags", !.key = key]
         IN
         IF auth.res.kind # "Ok"
         THEN Return(t, tk0, auth.res, None, None)
         ELSE
         LET allowed == check_permission(Unwrap(auth.user).role, "Write") IN
         IF allowed.kind # "Ok"
         THEN Return(t, tk0, allowed, None, None)
         ELSE
         \E document_id \in DocIdInputs, names \in w.tag_lists :
           LET tk == [tk0 EXCEPT !.document_id = Some(document_id),
                                 !.names = names, !.i = 1]
           IN
           IF names = <<>>
           THEN Return(t, tk, BadRequest("Tags list cannot be empty"), None, None)
           ELSE IF find_active_document(documents, document_id) = {}
           THEN Return(t, tk, NotFound("Document not found or has been deleted"),
                       None, None)
           ELSE Goto(t, tk, "loop")
    /\ UNCHANGED <<documents, document_versions, document_metadata, tags,
                   document_tags, audit_logs, storage, next_id, clock,
                   upload_count, uploaded, hard_deleted>>
    /\ UNCHANGED <<perm, boot>>

\* 57-70 and 114-132: the next name that is not blank is looked up in tags;
\* after the last one the request answers
add_tags_select(w, t) ==
    LET tk == tasks[t]
        i == next_name(tk.names, tk.i)
        at == [tk EXCEPT !.i = i]
        existing == {r \in tags : r.name = trim(tk.names[i])}
    IN
    /\ tk.op = "tags"
    /\ tk.pc = "loop"
    /\ IF i > Len(tk.names)
       THEN IF tk.created = <<>>
            THEN Return(t, at, BadRequest("No valid tags were processed"),
                        None, None)
            ELSE Return(t, at, Ok,
                        Some([document_id |-> Unwrap(tk.document_id),
                              tags |-> tk.created, total |-> Len(tk.created)]),
                        None)
       ELSE IF existing # {}
       THEN Goto(t, [at EXCEPT !.tag_id = Some((CHOOSE r \in existing : TRUE).id),
                               !.tag_created = FALSE],
                 "link_check")
       ELSE Goto(t, at, "tag_insert")
    /\ UNCHANGED <<documents, document_versions, document_metadata, tags,
                   document_tags, audit_logs, storage, next_id, clock,
                   upload_count, uploaded, hard_deleted>>
    /\ UNCHANGED <<perm, boot>>

\* faulty variant: tags.name carries no uniqueness
name_taken_never(tag_rows, tag_name) == FALSE

\* models.rs 196: tags.name is TEXT NOT NULL UNIQUE, compared exactly
name_taken(tag_rows, tag_name) == \E r \in tag_rows : r.name = tag_name

\* 71-82: the tag is created; the INSERT of a name created meanwhile
\* violates the uniqueness of tags.name and is a database error
add_tags_insert_tag(w, t) ==
    LET tk == tasks[t]
        tag_name == trim(tk.names[tk.i])
        id == Cardinality(tags) + 1
    IN
    /\ tk.op = "tags"
    /\ tk.pc = "tag_insert"
    /\ IF name_taken(tags, tag_name)
       THEN /\ tags' = tags
            /\ Return(t, tk, Db, None, None)
       ELSE /\ tags' = tags \cup {[id |-> id, name |-> tag_name]}
            /\ Goto(t, [tk EXCEPT !.tag_id = Some(id), !.tag_created = TRUE],
                    "link_check")
    /\ UNCHANGED <<documents, document_versions, document_metadata,
                   document_tags, audit_logs, storage, next_id, clock,
                   upload_count, uploaded, hard_deleted>>
    /\ UNCHANGED <<perm, boot>>

\* 86-94: SELECT EXISTS on document_tags; a link found is left alone
add_tags_link_check(w, t) ==
    LET tk == tasks[t]
        relationship_exists ==
            [document_id |-> Unwrap(tk.document_id),
             tag_id |-> Unwrap(tk.tag_id)] \in document_tags
    IN
    /\ tk.op = "tags"
    /\ tk.pc = "link_check"
    /\ IF relationship_exists
       THEN Goto(t, [tk EXCEPT !.created = Append(tk.created, tag_info(tk)),
                               !.i = tk.i + 1],
                 "loop")
       ELSE Goto(t, tk, "link_insert")
    /\ UNCHANGED <<documents, document_versions, document_metadata, tags,
                   document_tags, audit_logs, storage, next_id, clock,
                   upload_count, uploaded, hard_deleted>>
    /\ UNCHANGED <<perm, boot>>

\* 96-105: INSERT INTO document_tags ... ON CONFLICT DO NOTHING; document_id
\* is a foreign key (models.rs 206), so the INSERT for a document deleted
\* meanwhile is a database error
add_tags_link_insert(w, t) ==
    LET tk == tasks[t]
        document_id == Unwrap(tk.document_id)
        tag_id == Unwrap(tk.tag_id)
        conflict == [document_id |-> document_id, tag_id |-> tag_id]
                        \in document_tags
    IN
    /\ tk.op = "tags"
    /\ tk.pc = "link_insert"
    /\ IF find_document(documents, document_id) = {}
       THEN /\ document_tags' = document_tags
            /\ Return(t, tk, Db, None, None)
       ELSE /\ document_tags' = insert_link(document_tags, document_id, tag_id)
            /\ Goto(t, [tk EXCEPT !.created = Append(tk.created, tag_info(tk)),
                                  !.i = tk.i + 1,
                                  !.conflicted = tk.conflicted \/ conflict],
                    "loop")
    /\ UNCHANGED <<documents, document_versions, document_metadata, tags,
                   audit_logs, storage, next_id, clock, upload_count,
                   uploaded, hard_deleted>>
    /\ UNCHANGED <<perm, boot>>

(* routes/documents.rs: soft_delete_document cut at its awaits: the SELECT
   of the row, the conditional UPDATE and the audit insert are three
   statements on the pool, so those of two requests interleave *)
\* 188-225: authentication, permission and the SELECT of the document
soft_delete_select(w, t) ==
    /\ Free(t)
    /\ \E key \in w.keys :
         LET auth == from_request_parts(key)
             tk0 == [IdleTask EXCEPT !.op = "soft_delete", !.key = key]
         IN
         IF auth.res.kind # "Ok"
         THEN Return(t, tk0, auth.res, None, None)
         ELSE
         LET allowed == check_permission(Unwrap(auth.user).role, "Delete") IN
         IF allowed.kind # "Ok"
         THEN Return(t, tk0, allowed, None, None)
         ELSE
         \E document_id \in DocIdInputs :
           LET document == find_document(documents, document_id)
               doc == CHOOSE d \in document : TRUE
               tk == [tk0 EXCEPT !.document_id = Some(document_id)]
           IN
           IF document = {}
           THEN Return(t, tk, NotFound("Document not found"), None, None)
           ELSE IF already_deleted(doc)
           THEN Return(t, tk, BadRequest("Document is already deleted"),
                       None, None)
           ELSE Goto(t, [tk EXCEPT !.doc = Some(doc)], "selected")
    /\ UNCHANGED state
    /\ UNCHANGED <<perm, boot>>

\* 227-243: UPDATE documents SET deleted_at = CURRENT_TIMESTAMP WHERE
\* id = $1 AND deleted_at IS NULL, and rows_affected
soft_delete_update(w, t) ==
    LET tk == tasks[t]
        document_id == Unwrap(tk.document_id)
        updated == mark_deleted(documents, document_id, clock)
    IN
    /\ tk.op = "soft_delete"
    /\ tk.pc = "selected"
    /\ IF updated = documents
       THEN /\ Return(t, tk,
                      BadRequest("Document is already deleted or not found"),
                      None, None)
            /\ UNCHANGED <<documents, clock>>
       ELSE /\ documents' = updated
            /\ clock' = clock + 1
            /\ Goto(t, tk, "updated")
    /\ UNCHANGED <<document_versions, document_metadata, tags, document_tags,
                   audit_logs, storage, next_id, upload_count, uploaded,
                   hard_deleted>>
    /\ UNCHANGED <<perm, boot>>

\* 245-272: log_delete, whose failure is only logged, and the response
soft_delete_log(w, t) ==
    LET tk == tasks[t]
        document_id == Unwrap(tk.document_id)
        current_user == Unwrap(from_request_parts(tk.key).user)
        doc == Unwrap(tk.doc)
    IN
    /\ tk.op = "soft_delete"
    /\ tk.pc = "updated"
    /\ \E audit_ok \in AuditOutcomes(w) :
         /\ audit_logs' = log_delete(
                audit_logs, current_user.id, document_id,
                [delete_type |-> "soft", title |-> doc.title,
                 category |-> doc.category],
                audit_ok)
         /\ Return(t, tk, after_audit(Ok, audit_ok),
                   Some([document_id |-> document_id]), None)
    /\ UNCHANGED <<documents, document_versions, document_metadata, tags,
                   document_tags, storage, next_id, clock, upload_count,
                   uploaded, hard_deleted>>
    /\ UNCHANGED <<perm, boot>>

(* routes/documents.rs: hard_delete_document cut at its awaits. It runs
   outside any transaction: the two SELECTs, the storage deletes, the audit
   insert and the DELETE take effect one by one *)
\* faulty variant: a row that references the document does not hold it
delete_waits_never(ts, document_id) == FALSE

\* models.rs 38: document_versions.document_id is a foreign key; the row an
\* open transaction has inserted holds the document it references, and the
\* DELETE of that document waits until the transaction commits or rolls back
delete_waits(ts, document_id) ==
    \E u \in DOMAIN ts :
        /\ ts[u].op = "upload"
        /\ ts[u].pc = "inserted"
        /\ ts[u].document_id = Some(document_id)
        /\ ts[u].new_doc = None

\* 296-332: authentication, permission and the SELECT of the document,
\* whatever its deleted_at
hard_delete_select(w, t) ==
    /\ Free(t)
    /\ \E key \in w.keys :
         LET auth == from_request_parts(key)
             tk0 == [IdleTask EXCEPT !.op = "hard_delete", !.key = key]
         IN
         IF auth.res.kind # "Ok"
         THEN Return(t, tk0, auth.res, None, None)
         ELSE
         LET allowed == check_permission(Unwrap(auth.user).role, "Delete") IN
         IF allowed.kind # "Ok"
         THEN Return(t, tk0, allowed, None, None)
         ELSE
         \E document_id \in DocIdInputs :
           LET document == find_document(documents, document_id)
               tk == [tk0 EXCEPT !.document_id = Some(document_id)]
           IN
           IF document = {}
           THEN Return(t, tk, NotFound("Document not found"), None, None)
           ELSE Goto(t, [tk EXCEPT !.doc = Some(CHOOSE d \in document : TRUE)],
                     "selected")
    /\ UNCHANGED state
    /\ UNCHANGED <<perm, boot>>

\* 334-345: the version rows of the document as committed at this moment
hard_delete_versions(w, t) ==
    LET tk == tasks[t] IN
    /\ tk.op = "hard_delete"
    /\ tk.pc = "selected"
    /\ Goto(t, [tk EXCEPT !.versions =
                   versions_of(document_versions, Unwrap(tk.document_id))],
            "fetched")
    /\ UNCHANGED state
    /\ UNCHANGED <<perm, boot>>

\* 347-366: storage.delete of every fetched version's file_path; an error is
\* logged and the loop goes on
hard_delete_files(w, t) ==
    LET tk == tasks[t]
        paths == {v.file_path : v \in delete_targets(tk.versions)}
    IN
    /\ tk.op = "hard_delete"
    /\ tk.pc = "fetched"
    /\ \E failed \in (IF w.storage_delete_fails THEN SUBSET paths ELSE {{}}) :
         /\ storage' = Remove(storage, paths \ failed)
         /\ Goto(t, [tk EXCEPT !.failed = failed], "purged")
    /\ UNCHANGED <<documents, document_versions, document_metadata, tags,
                   document_tags, audit_logs, next_id, clock, upload_count,
                   uploaded, hard_deleted>>
    /\ UNCHANGED <<perm, boot>>

\* 368-391: log_delete, whose failure is only logged
hard_delete_log(w, t) ==
    LET tk == tasks[t]
        current_user == Unwrap(from_request_parts(tk.key).user)
        doc == Unwrap(tk.doc)
    IN
    /\ tk.op = "hard_delete"
    /\ tk.pc = "purged"
    /\ \E audit_ok \in AuditOutcomes(w) :
         audit_logs' = log_delete(
             audit_logs, current_user.id, Unwrap(tk.document_id),
             [delete_type |-> "hard", title |-> doc.title,
              category |-> doc.category,
              versions_deleted |-> Cardinality(tk.versions),
              files_deleted |-> Cardinality(tk.versions)],
             audit_ok)
    /\ Goto(t, tk, "logged")
    /\ UNCHANGED <<documents, document_versions, document_metadata, tags,
                   document_tags, storage, next_id, clock, upload_count,
                   uploaded, hard_deleted>>
    /\ UNCHANGED <<perm, boot>>

\* 393-427: DELETE FROM documents with its cascade, rows_affected and the
\* response
hard_delete_row(w, t) ==
    LET tk == tasks[t]
        document_id == Unwrap(tk.document_id)
        body == [document_id |-> document_id,
                 versions_deleted |-> Cardinality(tk.versions),
                 storage_deletes |->
                     {[version_number |-> v.version_number,
                       path |-> v.file_path] : v \in delete_targets(tk.versions)}]
    IN
    /\ tk.op = "hard_delete"
    /\ tk.pc = "logged"
    /\ ~delete_waits(tasks, document_id)
    /\ \E delete_ok \in w.row_delete :
         IF ~delete_ok
         THEN /\ Return(t, tk, Db, None, None)
              /\ UNCHANGED state
         ELSE IF find_document(documents, document_id) = {}
         THEN /\ Return(t, tk, NotFound("Document not found"), None, None)
              /\ UNCHANGED state
         ELSE /\ documents' = documents \ find_document(documents, document_id)
              /\ document_versions' = cascade_delete(document_versions, document_id)
              /\ document_metadata' = cascade_delete(document_metadata, document_id)
              /\ document_tags' = cascade_delete(document_tags, document_id)
              /\ audit_logs' = set_null(audit_logs, document_id)
              /\ uploaded' = {u \in uploaded : u.document_id # document_id}
              /\ hard_deleted' = hard_deleted \cup {document_id}
              /\ Return(t, tk, Ok, Some(body), None)
              /\ UNCHANGED <<tags, storage, next_id, clock, upload_count>>
    /\ UNCHANGED <<perm, boot>>

(* ------------------------------ bootstrap ----------------------------- *)
(* main: the storage-bucket warm-up between the construction of the
   storage client and the start of the server. One PUT {endpoint}/{bucket}
   per attempt; the reply is a status, or none when the connection fails *)
MaxWarmupAttempts == 10
PutReplies ==
    [connected : {TRUE}, status : {200, 201, 403, 409, 500}]
      \cup {[connected |-> FALSE, status |-> 0]}

\* faulty variant: only a 2xx reply counts
bucket_confirmed_2xx_only(reply) ==
    reply.connected /\ reply.status \in 200..299

\* a 2xx status or 409 (already exists) confirms the bucket
bucket_confirmed(reply) ==
    reply.connected /\ (reply.status \in 200..299 \/ reply.status = 409)

\* faulty variant: the loop has no bound
retry_unbounded(attempts) == TRUE

\* another attempt is made while fewer than the maximum have been
retry(attempts) == attempts < MaxWarmupAttempts

Booting ==
    [pc |-> "warmup", attempts |-> 0, reply |-> None, bucket_created |-> FALSE,
     stat_ok |-> None]
\* the process once it serves: Init of the request handlers
Serving ==
    [pc |-> "serving", attempts |-> 1,
     reply |-> Some([connected |-> TRUE, status |-> 200]),
     bucket_created |-> TRUE, stat_ok |-> Some(TRUE)]

\* one attempt: the PUT and what the loop does with its outcome
warmup_put ==
    /\ boot.pc = "warmup"
    /\ \E reply \in PutReplies :
         LET attempts == boot.attempts + 1
             tried == [boot EXCEPT !.attempts = attempts, !.reply = Some(reply)]
         IN
         boot' = IF bucket_confirmed(reply)
                 THEN [tried EXCEPT !.bucket_created = TRUE, !.pc = "stat"]
                 ELSE IF retry(attempts)
                 THEN [tried EXCEPT !.pc = "pause"]
                 ELSE [tried EXCEPT !.pc = "bind"]
    /\ UNCHANGED <<state, resp, perm, tasks>>

\* the 2-second pause before the next attempt
warmup_pause ==
    /\ boot.pc = "pause"
    /\ boot' = [boot EXCEPT !.pc = "warmup"]
    /\ UNCHANGED <<state, resp, perm, tasks>>

\* the stat of the root path once the bucket is confirmed; a failure is
\* logged and tolerated
warmup_stat ==
    /\ boot.pc = "stat"
    /\ \E ok \in BOOLEAN :
         boot' = [boot EXCEPT !.stat_ok = Some(ok), !.pc = "bind"]
    /\ UNCHANGED <<state, resp, perm, tasks>>

\* TcpListener::bind("0.0.0.0:3000") and axum::serve; a failed bind ends
\* the process
bind_and_serve ==
    /\ boot.pc = "bind"
    /\ \E bound \in BOOLEAN :
         boot' = [boot EXCEPT !.pc = IF bound THEN "serving" ELSE "exit"]
    /\ UNCHANGED <<state, resp, perm, tasks>>

(* ----------------------------- workloads ----------------------------- *)
(* A workload names the values the requests of a run are drawn from and
   the outcomes the storage and the database may give. *)
UploadFaults == {"write", "version", "metadata", "commit", "none"}

AllInputs ==
    [keys |-> KeyInputs,
     document_id_texts |-> DocumentIdTexts,
     titles |-> TitleInputs,
     categories |-> CategoryInputs,
     files |-> FileInputs,
     metas |-> MetaInputs,
     upload_faults |-> UploadFaults,
     sidecar_write |-> BOOLEAN,
     audit |-> BOOLEAN,
     versions |-> VersionInputs,
     storage_delete_fails |-> TRUE,
     row_delete |-> BOOLEAN,
     list_params |-> ListInputs,
     folder_names |-> FolderNameInputs,
     folder_write |-> BOOLEAN,
     tag_lists |-> TagListInputs,
     usernames |-> UsernameInputs,
     passwords |-> PasswordInputs,
     max_uploads |-> MaxUploads,
     max_audit |-> MaxAudit]

NoFilter == [page |-> None, page_size |-> None, title |-> None, category |-> None]

(* every endpoint, every kind of X-API-Key header, one well-formed request
   body per endpoint (every body for login), no storage or database failure
   but that of the sidecar write of a folder creation *)
AccessInputs ==
    [AllInputs EXCEPT
       !.titles = {Some(<<"T">>)},
       !.categories = {Some(<<"F">>)},
       !.files = {Some([file_name |-> Some("a.txt"), bytes |-> <<1>>])},
       !.metas = {<<MetaField("meta_k", "x")>>},
       !.upload_faults = {"none"},
       !.sidecar_write = {TRUE},
       !.audit = {TRUE},
       !.versions = {None},
       !.storage_delete_fails = FALSE,
       !.row_delete = {TRUE},
       !.list_params = {NoFilter},
       !.folder_names = {<<"D">>},
       !.tag_lists = {<<<<"x">>>>},
       !.max_uploads = MaxUploadsAccess]

(* the life of a document: an admin uploads versions, downloads, tags,
   lists and deletes; the hard delete may fail at every storage delete and
   at the row delete *)
LifeInputs ==
    [AllInputs EXCEPT
       !.keys = {Some("key-a")},
       !.document_id_texts = {},
       !.titles = {Some(<<"T">>)},
       !.categories = {None},
       !.metas = {<<MetaField("meta_k", "x")>>},
       !.upload_faults = {"none"},
       !.sidecar_write = {TRUE},
       !.audit = {FALSE},
       !.list_params = {NoFilter},
       !.tag_lists = {<<<<"x">>>>}]

(* the upload and its failures: an admin sends every request body, and the
   storage write, the version insert, the metadata upsert and the commit
   may each fail *)
UploadInputs ==
    [AllInputs EXCEPT
       !.keys = {Some("key-a")},
       !.categories = {None, Some(<<"F">>)},
       !.audit = {TRUE},
       !.versions = {None},
       !.list_params = {NoFilter}]

(* the folders of the object store: an admin uploads under every category,
   creates folders and hard-deletes documents *)
FolderInputs ==
    [AllInputs EXCEPT
       !.keys = {Some("key-a")},
       !.document_id_texts = {},
       !.titles = {Some(<<"T">>)},
       !.files = {Some([file_name |-> Some("a.txt"), bytes |-> <<1>>])},
       !.metas = {<<>>},
       !.upload_faults = {"write", "none"},
       !.audit = {FALSE}]

(* the sidecars of the folders: the admin and the editor upload under every
   no category, the empty one, a blank one and F, and create folders; a
   sidecar write may fail *)
SidecarInputs ==
    [FolderInputs EXCEPT
       !.keys = {Some("key-a"), Some("key-e")},
       !.categories = {None, Some(<<>>), Some(<<" ">>), Some(<<"F">>)},
       !.upload_faults = {"none"},
       !.folder_names = {<<" ">>, <<"F">>, <<" ", "F", "_", "D">>}]

(* the tags of a document: an admin uploads, tags with every tag list,
   and deletes *)
TagInputs ==
    [AllInputs EXCEPT
       !.keys = {Some("key-a")},
       !.document_id_texts = {},
       !.titles = {Some(<<"T">>)},
       !.categories = {None},
       !.files = {Some([file_name |-> Some("a.txt"), bytes |-> <<1>>])},
       !.metas = {<<>>},
       !.upload_faults = {"none"},
       !.sidecar_write = {TRUE},
       !.audit = {FALSE},
       !.storage_delete_fails = FALSE,
       !.row_delete = {TRUE},
       !.max_uploads = MaxUploadsAccess]

(* two requests attach tags to the seeded document at the same time, the
   same name among them, while an admin may hard delete the document *)
TagRaceInputs ==
    [TagInputs EXCEPT
       !.tag_lists = {<<<<"x">>>>, <<<<" ">>, <<"x", " ">>>>, <<<<"t">>, <<"x">>>>}]

(* two requests soft delete at the same time, as the admin or as the
   editor, while documents are uploaded; audit inserts may fail *)
DeleteRaceInputs ==
    [TagInputs EXCEPT
       !.keys = {Some("key-a"), Some("key-e")},
       !.audit = BOOLEAN,
       !.max_audit = MaxAuditTrail]

(* an upload and a hard delete in flight at the same time: the admin
   uploads new documents and new versions and hard deletes them; a storage
   delete and the DELETE of the row may fail *)
PurgeRaceInputs ==
    [TagInputs EXCEPT
       !.storage_delete_fails = TRUE,
       !.row_delete = BOOLEAN,
       !.versions = {None},
       !.max_uploads = MaxUploads]

(* uploads that name an existing document: the admin uploads with and
   without a title, under no category, a blank one and two folders, soft
   deletes, downloads and lists; audit inserts may fail *)
AppendInputs ==
    [TagInputs EXCEPT
       !.titles = {None, Some(<<"T">>), Some(<<"t">>)},
       !.categories = {None, Some(<<" ">>), Some(<<"F">>)},
       !.audit = BOOLEAN,
       !.versions = {None, Some(1)},
       !.list_params = {NoFilter},
       !.max_uploads = MaxUploads,
       !.max_audit = MaxAuditTrail]

(* the audit trail: an admin sends one request body per endpoint, a
   download may name a version that does not exist, the commit of an upload
   and the row delete of a hard delete may fail, and so may every audit
   insert *)
AuditInputs ==
    [AllInputs EXCEPT
       !.keys = {Some("key-a")},
       !.document_id_texts = {},
       !.titles = {Some(<<"T">>)},
       !.categories = {None},
       !.files = {Some([file_name |-> Some("a.txt"), bytes |-> <<1>>])},
       !.metas = {<<>>},
       !.upload_faults = {"commit", "none"},
       !.sidecar_write = {TRUE},
       !.versions = {None, Some(2)},
       !.storage_delete_fails = FALSE,
       !.list_params = {NoFilter},
       !.folder_names = {<<"F">>},
       !.folder_write = {TRUE},
       !.tag_lists = {<<<<"x">>>>},
       !.usernames = {<<"v">>},
       !.passwords = {<<"p", "v">>, <<"p", "e">>},
       !.max_uploads = MaxUploadsAccess,
       !.max_audit = MaxAuditTrail]

\* the same requests when no audit insert fails while the table has room
TrailInputs == [AuditInputs EXCEPT !.audit = {TRUE}]

(* the metadata of a document: an admin uploads new documents and new
   versions with every kind of metadata field; the metadata upsert may
   fail *)
MetadataInputs ==
    [AllInputs EXCEPT
       !.keys = {Some("key-a")},
       !.document_id_texts = {},
       !.titles = {Some(<<"T">>)},
       !.categories = {None},
       !.files = {Some([file_name |-> Some("a.txt"), bytes |-> <<1>>])},
       !.metas = MetadataFormInputs,
       !.upload_faults = {"metadata", "none"},
       !.sidecar_write = {TRUE},
       !.audit = {FALSE},
       !.versions = {None},
       !.list_params = {NoFilter}]

(* the listing: an admin uploads documents with and without a category and
   new versions with another file, soft-deletes, and lists with every
   paging and filter parameter *)
ListingInputs ==
    [AllInputs EXCEPT
       !.keys = {Some("key-a")},
       !.document_id_texts = {},
       !.titles = {Some(<<"T">>)},
       !.categories = {None, Some(<<"F">>)},
       !.files = {Some([file_name |-> Some("a.txt"), bytes |-> <<1>>]),
                  Some([file_name |-> None, bytes |-> <<2, 2>>])},
       !.metas = {<<>>},
       !.upload_faults = {"none"},
       !.sidecar_write = {TRUE},
       !.audit = {FALSE},
       !.list_params = ListPagingInputs]

(* concurrent uploads: an admin's requests, each a new document or a new
   version of an existing one, with one of two files and no category; the
   commit may fail *)
UploadRaceInputs ==
    [AllInputs EXCEPT
       !.keys = {Some("key-a")},
       !.document_id_texts = {},
       !.titles = {Some(<<"T">>)},
       !.categories = {None},
       !.files = {Some([file_name |-> Some("a.txt"), bytes |-> <<1>>]),
                  Some([file_name |-> None, bytes |-> <<2, 2>>])},
       !.metas = {<<>>},
       !.upload_faults = {"commit", "none"},
       !.sidecar_write = {TRUE},
       !.audit = {FALSE},
       !.max_uploads = MaxRaceUploads]

(* concurrent folder creations: an editor and an admin create folders of
   every name; the sidecar write may fail *)
FolderRaceInputs ==
    [AllInputs EXCEPT !.keys = {Some("key-e"), Some("key-a")}]

(* ---------------------------- specification --------------------------- *)
(* The schema allows a document row that has no version rows (upload.rs 257
   and documents.rs 85-87 handle it); the database the service starts on is
   empty or holds one such document. *)
SeedDocument == [id |-> 1, title |-> <<"T">>, category |-> None, deleted_at |-> None]

NoResponse == [op |-> "init", key |-> None, doc |-> None, kind |-> "Ok",
               msg |-> "", body |-> None, status |-> 200, error |-> None,
               form |-> None]
Unapplied == [kind |-> "-", msg |-> ""]

Init ==
    /\ \/ documents = {} /\ next_id = 1
       \/ documents = {SeedDocument} /\ next_id = 2
    /\ document_versions = {}
    /\ document_metadata = {}
    /\ tags = {}
    /\ document_tags = {}
    /\ audit_logs = <<>>
    /\ storage = <<>>
    /\ clock = 1
    /\ upload_count = 0
    /\ uploaded = {}
    /\ hard_deleted = {}
    /\ resp = NoResponse
    /\ perm_in = [role |-> "viewer", action |-> "Read"]
    /\ perm_out = Unapplied
    /\ tasks = [t \in Tasks |-> IdleTask]
    /\ boot = Serving

Next ==
    \/ upload_file(AccessInputs)
    \/ download_document(AccessInputs)
    \/ soft_delete_document(AccessInputs)
    \/ hard_delete_document(AccessInputs)
    \/ list_documents(AccessInputs)
    \/ get_actions(AccessInputs)
    \/ create_folder(AccessInputs)
    \/ list_folders(AccessInputs)
    \/ add_tags_to_document(AccessInputs)
    \/ login(AccessInputs)

Spec == Init /\ [][Next]_vars

NextLife ==
    \/ upload_file(LifeInputs)
    \/ download_document(LifeInputs)
    \/ soft_delete_document(LifeInputs)
    \/ hard_delete_document(LifeInputs)
    \/ list_documents(LifeInputs)
    \/ add_tags_to_document(LifeInputs)

SpecLife == Init /\ [][NextLife]_vars

NextUpload ==
    \/ upload_file(UploadInputs)
    \/ download_document(UploadInputs)
    \/ list_documents(UploadInputs)

SpecUpload == Init /\ [][NextUpload]_vars

NextFolders ==
    \/ upload_file(FolderInputs)
    \/ create_folder(FolderInputs)
    \/ list_folders(FolderInputs)
    \/ hard_delete_document(FolderInputs)

SpecFolders == Init /\ [][NextFolders]_vars

NextSidecar ==
    \/ upload_file(SidecarInputs)
    \/ create_folder(SidecarInputs)
    \/ list_folders(SidecarInputs)
    \/ hard_delete_document(SidecarInputs)

SpecSidecar == Init /\ [][NextSidecar]_vars

NextTags ==
    \/ upload_file(TagInputs)
    \/ add_tags_to_document(TagInputs)
    \/ soft_delete_document(TagInputs)
    \/ hard_delete_document(TagInputs)

SpecTags == Init /\ [][NextTags]_vars

NextAudit ==
    \/ upload_file(AuditInputs)
    \/ download_document(AuditInputs)
    \/ soft_delete_document(AuditInputs)
    \/ hard_delete_document(AuditInputs)
    \/ list_documents(AuditInputs)
    \/ get_actions(AuditInputs)
    \/ create_folder(AuditInputs)
    \/ list_folders(AuditInputs)
    \/ add_tags_to_document(AuditInputs)
    \/ login(AuditInputs)

SpecAudit == Init /\ [][NextAudit]_vars

NextTrail ==
    \/ upload_file(TrailInputs)
    \/ download_document(TrailInputs)
    \/ soft_delete_document(TrailInputs)
    \/ hard_delete_document(TrailInputs)
    \/ list_documents(TrailInputs)
    \/ get_actions(TrailInputs)
    \/ create_folder(TrailInputs)
    \/ list_folders(TrailInputs)
    \/ add_tags_to_document(TrailInputs)
    \/ login(TrailInputs)

SpecTrail == Init /\ [][NextTrail]_vars

NextUploadRace ==
    \/ \E t \in Tasks : upload_begin(UploadRaceInputs, t)
    \/ \E t \in Tasks : upload_write(UploadRaceInputs, t)
    \/ \E t \in Tasks : upload_insert(UploadRaceInputs, t)
    \/ \E t \in Tasks : upload_commit(UploadRaceInputs, t)

SpecUploadRace == Init /\ [][NextUploadRace]_vars

NextFolderRace ==
    \/ \E t \in Tasks : create_folder_check(FolderRaceInputs, t)
    \/ \E t \in Tasks : create_folder_write(FolderRaceInputs, t)

SpecFolderRace == Init /\ [][NextFolderRace]_vars

NextTagRace ==
    \/ \E t \in Tasks : add_tags_begin(TagRaceInputs, t)
    \/ \E t \in Tasks : add_tags_select(TagRaceInputs, t)
    \/ \E t \in Tasks : add_tags_insert_tag(TagRaceInputs, t)
    \/ \E t \in Tasks : add_tags_link_check(TagRaceInputs, t)
    \/ \E t \in Tasks : add_tags_link_insert(TagRaceInputs, t)
    \/ hard_delete_document(TagRaceInputs)

SpecTagRace == Init /\ [][NextTagRace]_vars

NextDeleteRace ==
    \/ \E t \in Tasks : soft_delete_select(DeleteRaceInputs, t)
    \/ \E t \in Tasks : soft_delete_update(DeleteRaceInputs, t)
    \/ \E t \in Tasks : soft_delete_log(DeleteRaceInputs, t)
    \/ upload_file(DeleteRaceInputs)

SpecDeleteRace == Init /\ [][NextDeleteRace]_vars

NextPurgeRace ==
    \/ \E t \in Tasks : upload_begin(PurgeRaceInputs, t)
    \/ \E t \in Tasks : upload_write(PurgeRaceInputs, t)
    \/ \E t \in Tasks : upload_insert(PurgeRaceInputs, t)
    \/ \E t \in Tasks : upload_commit(PurgeRaceInputs, t)
    \/ \E t \in Tasks : hard_delete_select(PurgeRaceInputs, t)
    \/ \E t \in Tasks : hard_delete_versions(PurgeRaceInputs, t)
    \/ \E t \in Tasks : hard_delete_files(PurgeRaceInputs, t)
    \/ \E t \in Tasks : hard_delete_log(PurgeRaceInputs, t)
    \/ \E t \in Tasks : hard_delete_row(PurgeRaceInputs, t)
    \/ download_document(PurgeRaceInputs)

SpecPurgeRace == Init /\ [][NextPurgeRace]_vars

NextAppend ==
    \/ upload_file(AppendInputs)
    \/ soft_delete_document(AppendInputs)
    \/ download_document(AppendInputs)
    \/ list_documents(AppendInputs)

SpecAppend == Init /\ [][NextAppend]_vars

NextListing ==
    \/ upload_file(ListingInputs)
    \/ soft_delete_document(ListingInputs)
    \/ list_documents(ListingInputs)

SpecListing == Init /\ [][NextListing]_vars

NextMetadata ==
    \/ upload_file(MetadataInputs)
    \/ download_document(MetadataInputs)

SpecMetadata == Init /\ [][NextMetadata]_vars

(* the process start, from the constructed storage client to the server *)
InitBoot ==
    /\ documents = {}
    /\ next_id = 1
    /\ document_versions = {}
    /\ document_metadata = {}
    /\ tags = {}
    /\ document_tags = {}
    /\ audit_logs = <<>>
    /\ storage = <<>>
    /\ clock = 1
    /\ upload_count = 0
    /\ uploaded = {}
    /\ hard_deleted = {}
    /\ resp = NoResponse
    /\ perm_in = [role |-> "viewer", action |-> "Read"]
    /\ perm_out = Unapplied
    /\ tasks = [t \in Tasks |-> IdleTask]
    /\ boot = Booting

NextBoot ==
    \/ warmup_put
    \/ warmup_pause
    \/ warmup_stat
    \/ bind_and_serve

\* every step is the next statement of main and each call returns: the PUT
\* with a reply or a connection error, the pause after 2 seconds
SpecBoot == InitBoot /\ [][NextBoot]_vars /\ WF_vars(NextBoot)

(* check_permission applied to every role string and action *)
InitPerm ==
    /\ documents = {}
    /\ next_id = 1
    /\ document_versions = {}
    /\ document_metadata = {}
    /\ tags = {}
    /\ document_tags = {}
    /\ audit_logs = <<>>
    /\ storage = <<>>
    /\ clock = 1
    /\ upload_count = 0
    /\ uploaded = {}
    /\ hard_deleted = {}
    /\ resp = NoResponse
    /\ perm_in \in [role : RoleInputs, action : StorageAction]
    /\ perm_out = Unapplied
    /\ tasks = [t \in Tasks |-> IdleTask]
    /\ boot = Serving

ApplyCheckPermission ==
    /\ perm_out' = check_permission(perm_in.role, perm_in.action)
    /\ perm_in' = perm_in
    /\ UNCHANGED state
    /\ UNCHANGED resp
    /\ UNCHANGED <<tasks, boot>>

NextPerm == ApplyCheckPermission

SpecPerm == InitPerm /\ [][NextPerm]_vars

(* ------------------------------- claims ------------------------------- *)
\* C1: check_permission allows Read and Stat to viewer, editor and admin,
\* Write to editor and admin, Delete and GetActions to admin alone, and
\* nothing to any other role string; every denial is a BadRequest, the
\* invalid-input error.
C1_PermissionMatrix ==
    perm_out # Unapplied =>
        LET role == perm_in.role
            action == perm_in.action
            allowed ==
                \/ action \in {"Read", "Stat"} /\ role \in {"viewer", "editor", "admin"}
                \/ action = "Write" /\ role \in {"editor", "admin"}
                \/ action \in {"Delete", "GetActions"} /\ role = "admin"
        IN IF allowed THEN perm_out = Ok ELSE perm_out.kind = "BadRequest"

C1_Witness ==
    /\ perm_in = [role |-> "Admin", action |-> "Stat"]
    /\ perm_out.kind = "BadRequest"

C3_DeniedChangesNothing ==
    [][ LET viewer == resp'.key = Some("key-v")
            editor == resp'.key = Some("key-e")
            guest == resp'.key = Some("key-g")
            denied(msg) == /\ resp'.kind = "BadRequest"
                           /\ resp'.msg = msg
                           /\ resp'.body = None
                           /\ UNCHANGED state
        IN
        /\ ((viewer \/ guest) /\ resp'.op \in {"upload", "tags", "create_folder"})
              => denied("Permission denied: write access required")
        /\ ((viewer \/ editor \/ guest)
                /\ resp'.op \in {"soft_delete", "hard_delete", "audit"})
              => denied("Permission denied: admin access required")
        /\ (guest /\ resp'.op \in {"download", "list_folders"})
              => denied("Permission denied: read access required")
        /\ viewer => UNCHANGED <<documents, document_versions, document_metadata,
                                tags, document_tags, storage>>
        /\ (viewer \/ editor) =>
              /\ \A d \in documents : d \in documents'
              /\ \A k \in DOMAIN storage : k \in DOMAIN storage'
      ]_vars

C3_Witness ==
    /\ resp.op = "hard_delete"
    /\ resp.key = Some("key-e")
    /\ resp.msg = "Permission denied: admin access required"
    /\ \E d \in documents : versions_of(document_versions, d.id) # {}

\* C4: the first version row of a document has version_number 1, every
\* later successful upload naming the document adds one row numbered one
\* above the highest, and so the version numbers of a document are always
\* exactly 1..n, each once.
C4_VersionsGapFree ==
    /\ [](\A v \in document_versions :
            LET rows == versions_of(document_versions, v.document_id) IN
            /\ {r.version_number : r \in rows} = 1..Cardinality(rows)
            /\ \E d \in documents : d.id = v.document_id)
    /\ [][ (resp'.op = "upload" /\ resp'.kind = "Ok") =>
              LET id == Unwrap(resp'.body).document_id
                  before == versions_of(document_versions, id)
                  after == versions_of(document_versions', id)
                  highest == IF before = {} THEN 0
                             ELSE Max({r.version_number : r \in before})
              IN /\ Unwrap(resp'.body).version_number = highest + 1
                 /\ before \subseteq after
                 /\ Cardinality(after) = Cardinality(before) + 1
                 /\ \E r \in after \ before : r.version_number = highest + 1
                 /\ (resp'.doc = None) => highest = 0
         ]_vars

C4_Witness ==
    /\ resp.op = "upload"
    /\ resp.kind = "Ok"
    /\ resp.doc # None
    /\ Unwrap(resp.body).version_number = 2
    /\ Cardinality(versions_of(document_versions, Unwrap(resp.body).document_id)) = 2

\* C5 (as claimed): a successful upload stores the file at
\* {folder}/{document_id}/v{version_number}, folder being the sanitized
\* category of the request, or "Uncategorized" when the category is absent
\* or blank after trimming; the version row's file_path and the response's
\* stored_path are that key, and the folder is the one that holds the
\* sidecar.
C5_StorageKeyAsClaimed ==
    (resp.op = "upload" /\ resp.kind = "Ok") =>
        LET body == Unwrap(resp.body)
            sent == CHOOSE u \in uploaded :
                        /\ u.document_id = body.document_id
                        /\ u.version_number = body.version_number
            category == sent.category
            blank == ~IsSome(category) \/ trim(Unwrap(category)) = <<>>
            folder == IF blank THEN Uncategorized
                      ELSE sanitize_folder_name(Unwrap(category))
            key == folder \o <<"/", UuidStr(body.document_id), "/",
                               VersionStr(body.version_number)>>
        IN /\ body.stored_path = key
           /\ key \in DOMAIN storage
           /\ \E v \in document_versions :
                 /\ v.document_id = body.document_id
                 /\ v.version_number = body.version_number
                 /\ v.file_path = key

\* C6: an upload answered with an error leaves the documents,
\* document_versions and document_metadata tables as they were, whichever
\* check, storage write or database statement it failed at.
C6_FailedUploadCommitsNothing ==
    [][ (resp'.op = "upload" /\ resp'.kind # "Ok") =>
            UNCHANGED <<documents, document_versions, document_metadata>>
      ]_vars

C6_Witness ==
    /\ resp.op = "upload"
    /\ resp.kind = "Db"
    /\ \E k \in DOMAIN storage :
          /\ storage[k].kind = "file"
          /\ \A v \in document_versions : v.file_path # k

\* C7: for an active document, a download without a version parameter
\* answers with the bytes and file_name uploaded as its highest version and
\* a download of version k with those uploaded as version k; a version
\* parameter that names no version row is answered NotFound "document
\* version not found", and a download without the parameter of a document
\* that has no version row NotFound "no versions found for this document".
\* (The answer is the storage error instead when the object of the version
\* is no longer stored.)
C7_DownloadServesTheVersion ==
    \A d \in documents : \A query_version \in VersionInputs :
        LET rows == versions_of(document_versions, d.id)
            result == download_result(documents, document_versions, storage,
                                      d.id, query_version)
            wanted == IF IsSome(query_version)
                      THEN {r \in rows : r.version_number = Unwrap(query_version)}
                      ELSE {r \in rows : \A o \in rows :
                                            o.version_number <= r.version_number}
        IN
        d.deleted_at = None =>
            IF rows = {} /\ ~IsSome(query_version)
            THEN result.res = NotFound("no versions found for this document")
            ELSE IF wanted = {}
            THEN result.res = NotFound("document version not found")
            ELSE \A r \in wanted :
                    IF stat_is_ok(storage, r.file_path)
                    THEN /\ result.res = Ok
                         /\ \E u \in uploaded :
                               /\ u.document_id = d.id
                               /\ u.version_number = r.version_number
                               /\ Unwrap(result.body).bytes = u.bytes
                               /\ Unwrap(result.body).file_name = u.file_name
                    ELSE result.res = Storage

C7_Witness ==
    /\ resp.op = "download"
    /\ resp.kind = "Ok"
    /\ Unwrap(resp.body).version_number = 1
    /\ \E u1, u2 \in uploaded :
          /\ u1.document_id = Unwrap(resp.doc)
          /\ u2.document_id = Unwrap(resp.doc)
          /\ u1.version_number = 1
          /\ u2.version_number = 2
          /\ u1.bytes # u2.bytes
          /\ Unwrap(resp.body).bytes = u1.bytes

\* C8: while the row of a soft-deleted document exists, no listing shows
\* the document or counts it in its total, and every download of it is
\* answered NotFound "Document not found or has been deleted"; the soft
\* delete itself changes nothing but the deleted_at of that row: the
\* version rows, the metadata rows and the stored objects stay as they were.
C8_SoftDeletedIsHidden ==
    /\ [](\A d \in documents :
            IsSome(d.deleted_at) =>
                /\ \A params \in ListInputs :
                      LET listing == list_result(documents, document_versions,
                                                 params)
                      IN /\ \A i \in 1..Len(listing.data) :
                               listing.data[i].id # d.id
                         /\ listing.total =
                               list_result(documents \ {d}, document_versions,
                                           params).total
                /\ \A query_version \in VersionInputs :
                      download_result(documents, document_versions, storage,
                                      d.id, query_version).res
                          = NotFound("Document not found or has been deleted"))
    /\ [][ (resp'.op = "soft_delete" /\ resp'.kind = "Ok") =>
              /\ UNCHANGED <<document_versions, document_metadata, storage>>
              /\ \E d \in documents :
                    /\ d.id = Unwrap(resp'.doc)
                    /\ d.deleted_at = None
                    /\ \E t \in 1..clock :
                          documents' = (documents \ {d})
                              \cup {[d EXCEPT !.deleted_at = Some(t)]}
         ]_vars

C8_Witness ==
    /\ resp.op = "download"
    /\ resp.kind = "NotFound"
    /\ \E d \in documents :
          /\ resp.doc = Some(d.id)
          /\ IsSome(d.deleted_at)
          /\ \E v \in versions_of(document_versions, d.id) :
                stat_is_ok(storage, v.file_path)
          /\ \E m \in document_metadata : m.document_id = d.id

\* C9: a soft delete of a document whose deleted_at is set is answered
\* BadRequest "Document is already deleted" and changes nothing, a soft
\* delete of an id that has no row is answered NotFound, and no request
\* changes a deleted_at that is set: the row stays as it is until a hard
\* delete removes it.
C9_DeletedAtSetOnce ==
    [][ /\ (resp'.op = "soft_delete" /\ resp'.doc # None) =>
              LET rows == find_document(documents, Unwrap(resp'.doc)) IN
              /\ (rows = {}) =>
                    /\ resp'.kind = "NotFound"
                    /\ resp'.msg = "Document not found"
                    /\ UNCHANGED state
              /\ \A d \in rows :
                    IsSome(d.deleted_at) =>
                        /\ resp'.kind = "BadRequest"
                        /\ resp'.msg = "Document is already deleted"
                        /\ UNCHANGED state
        /\ \A d \in documents :
              IsSome(d.deleted_at) =>
                  \/ d \in documents'
                  \/ /\ find_document(documents', d.id) = {}
                     /\ resp'.op = "hard_delete"
                     /\ resp'.doc = Some(d.id)
      ]_vars

C9_Witness ==
    /\ resp.op = "soft_delete"
    /\ resp.msg = "Document is already deleted"
    /\ \E d \in documents : resp.doc = Some(d.id) /\ IsSome(d.deleted_at)

\* C10: a hard delete of a document that has n version rows makes n
\* storage-delete calls, one for the file_path of each version, is never
\* refused whether deleted_at is set or not, and when it answers Ok it has
\* removed the document row with the version, metadata and tag-link rows
\* of the document and reports versions_deleted = n; afterwards a hard
\* delete, soft delete, download or tagging naming the id is answered
\* NotFound and an upload naming it is refused ("document_id not found",
\* or "Missing file" when it carries no file), none changing anything.
C10_HardDeleteRemovesAll ==
    [][ /\ (resp'.op = "hard_delete" /\ resp'.doc # None) =>
              LET id == Unwrap(resp'.doc)
                  rows == versions_of(document_versions, id)
                  n == Cardinality(rows)
              IN
              /\ (find_document(documents, id) # {}) => resp'.kind \in {"Ok", "Db"}
              /\ (resp'.kind = "Ok") =>
                    LET body == Unwrap(resp'.body) IN
                    /\ body.versions_deleted = n
                    /\ Cardinality(body.storage_deletes) = n
                    /\ \A v \in rows : \E c \in body.storage_deletes :
                          c.version_number = v.version_number /\ c.path = v.file_path
                    /\ find_document(documents', id) = {}
                    /\ versions_of(document_versions', id) = {}
                    /\ \A m \in document_metadata' : m.document_id # id
                    /\ \A l \in document_tags' : l.document_id # id
                    /\ id \in hard_deleted'
        /\ (resp'.doc # None /\ Unwrap(resp'.doc) \in hard_deleted) =>
              /\ resp'.op \in {"hard_delete", "soft_delete", "download", "tags"}
                    => resp'.kind = "NotFound"
              /\ resp'.op = "upload" =>
                    /\ resp'.kind = "BadRequest"
                    /\ resp'.msg \in {"document_id not found", "Missing file"}
              /\ UNCHANGED state
      ]_vars

C10_Witness ==
    /\ resp.op = "hard_delete"
    /\ resp.kind = "Ok"
    /\ Unwrap(resp.body).versions_deleted = 2
    /\ Cardinality(Unwrap(resp.body).storage_deletes) = 2
    /\ Unwrap(resp.doc) \in hard_deleted
    /\ find_document(documents, Unwrap(resp.doc)) = {}

C12_LoginReturnsStoredKey ==
    /\ []((resp.op = "login" /\ resp.kind = "Ok")
            => ( LET body == Unwrap(resp.body)
                     auth == from_request_parts(Some(body.api_key))
                 IN /\ \E u \in Users :
                         /\ u.api_key = body.api_key
                         /\ u.id = body.user_id
                         /\ u.username = body.username
                         /\ u.role = body.role
                    /\ auth.res = Ok
                    /\ Unwrap(auth.user).id = body.user_id
                    /\ Unwrap(auth.user).username = body.username
                    /\ Unwrap(auth.user).role = body.role ))
    /\ [](\A u1 \in UsernameInputs, u2 \in UsernameInputs,
              p1 \in PasswordInputs, p2 \in PasswordInputs :
            LET first == login_result(u1, p1)
                again == login_result(u2, p2)
                same_user == /\ first.res = Ok
                             /\ again.res = Ok
                             /\ Unwrap(first.body).user_id = Unwrap(again.body).user_id
            IN same_user => ( Unwrap(first.body).api_key = Unwrap(again.body).api_key ))
    /\ [][resp'.op = "login" => UNCHANGED state]_vars

\* a login succeeded once documents exist
C12_Witness ==
    /\ resp.op = "login"
    /\ resp.kind = "Ok"
    /\ documents # {}
    /\ \E u1 \in AccessInputs.usernames, u2 \in AccessInputs.usernames,
          p \in AccessInputs.passwords :
          /\ u1 # u2
          /\ login_result(u1, p).res = Ok
          /\ login_result(u2, p).res = Ok
          /\ login_result(u1, p).body = login_result(u2, p).body

(* ------------------------------- C13 ---------------------------------- *)
\* C13: in every reachable state and for every name, a folder creation by a
\* caller allowed to write fails with BadRequest and writes nothing when the
\* name is blank; fails with BadRequest "Folder already exists" and writes
\* nothing when the sanitized name (the trimmed name with every character
\* that is not alphanumeric, '_' or '-' replaced by '_') already has its
\* sidecar or any object under its prefix; and otherwise reports the
\* sanitized name, adds exactly its sidecar, and makes every later creation
\* with the same sanitized name fail. No step removes or rewrites a sidecar,
\* and a refused creation leaves the object store as it was.
C13_FolderCreatedOnce ==
    /\ [](\A name \in FolderNameInputs, u \in Users :
            LET done == create_folder_result(storage, name, u, clock, TRUE)
                t == trim(name)
                expected == [i \in 1..Len(t) |->
                               IF is_alphanumeric(t[i]) \/ t[i] \in {"_", "-"}
                               THEN t[i] ELSE "_"]
                sidecar == expected \o <<"/", ".folder_metadata.json">>
                taken == \/ sidecar \in DOMAIN storage
                         \/ \E k \in DOMAIN storage :
                              /\ Len(k) > Len(expected)
                              /\ SubSeq(k, 1, Len(expected) + 1) = expected \o <<"/">>
            IN (check_permission(u.role, "Write") = Ok) =>
               ( IF t = <<>>
                 THEN done.res.kind = "BadRequest" /\ done.store = storage
                 ELSE IF taken
                 THEN /\ done.res = BadRequest("Folder already exists")
                      /\ done.store = storage
                 ELSE /\ done.res = Ok
                      /\ Unwrap(done.body).folder_name = expected
                      /\ DOMAIN done.store = DOMAIN storage \cup {sidecar}
                      /\ \A k \in DOMAIN storage : done.store[k] = storage[k]
                      /\ \A again \in FolderNameInputs :
                           (sanitize_folder_name(trim(again)) = expected)
                           => ( LET second == create_folder_result(
                                                 done.store, again, u, clock, TRUE)
                                IN /\ second.res = BadRequest("Folder already exists")
                                   /\ second.store = done.store ) ))
    /\ [][ /\ (resp'.op = "create_folder" /\ resp'.kind # "Ok")
              => storage' = storage
           /\ \A k \in DOMAIN storage :
                (k[Len(k)] = FolderMetadataFile)
                => (k \in DOMAIN storage' /\ storage'[k] = storage[k]) ]_vars

\* a creation was refused as existing for a folder that holds an uploaded
\* file but no sidecar, while another folder was created by request
C13_Witness ==
    /\ resp.op = "create_folder"
    /\ resp.msg = "Folder already exists"
    /\ ~stat_is_ok(storage, metadata_path_of(<<"F">>))
    /\ list_entries(storage, <<"F", "/">>) # {}
    /\ stat_is_ok(storage, metadata_path_of(<<"F", "_", "D">>))

(* ------------------------------- C14 ---------------------------------- *)
\* C14: in every reachable state, tagging an active document with a
\* non-empty list answers, when every name is blank after trimming,
\* BadRequest "No valid tags were processed" and changes nothing; otherwise
\* it answers with one TagInfo per non-blank name, in request order, and
\* total equal to their number; each TagInfo names the trimmed name and the
\* one Tag row that has exactly that name (case matters), with tag_created
\* true exactly when no row had the name before the request and no earlier
\* name of the request was the same; the tags afterwards are the tags
\* before plus one row per new name, and the document is linked to each.
C14_TagsProcessed ==
    /\ [](\A d \in documents, names \in TagListInputs :
            LET done == add_tags_result(documents, tags, document_tags, d.id, names)
                trimmed == [i \in 1..Len(names) |-> trim(names[i])]
                nonblank(n) == n # <<>>
                wanted == SelectSeq(trimmed, nonblank)
                infos == Unwrap(done.body).tags
            IN (d.deleted_at = None /\ names # <<>>) =>
               ( IF wanted = <<>>
                 THEN /\ done.res = BadRequest("No valid tags were processed")
                      /\ done.tags = tags
                      /\ done.links = document_tags
                 ELSE /\ done.res = Ok
                      /\ Unwrap(done.body).total = Len(wanted)
                      /\ Len(infos) = Len(wanted)
                      /\ \A i \in 1..Len(wanted) :
                           /\ infos[i].tag_name = wanted[i]
                           /\ infos[i].tag_created =
                                 ( /\ \A t \in tags : t.name # wanted[i]
                                   /\ \A j \in 1..(i - 1) : wanted[j] # wanted[i] )
                           /\ \E t \in done.tags :
                                 t.id = infos[i].tag_id /\ t.name = wanted[i]
                           /\ [document_id |-> d.id, tag_id |-> infos[i].tag_id]
                                 \in done.links
                      /\ tags \subseteq done.tags
                      /\ {t.name : t \in done.tags} =
                            {t.name : t \in tags} \cup {wanted[i] : i \in 1..Len(wanted)}
                      /\ \A t1 \in done.tags, t2 \in done.tags :
                            (t1.name = t2.name \/ t1.id = t2.id) => t1 = t2
                      /\ done.links = document_tags \cup
                            {[document_id |-> d.id, tag_id |-> infos[i].tag_id] :
                                i \in 1..Len(wanted)} ))
    /\ [][(resp'.op = "tags" /\ resp'.kind = "Ok")
            => ( LET infos == Unwrap(resp'.body).tags IN
                 /\ Unwrap(resp'.body).total = Len(infos)
                 /\ infos # <<>>
                 /\ tags \subseteq tags'
                 /\ \A i \in 1..Len(infos) :
                      /\ [id |-> infos[i].tag_id, name |-> infos[i].tag_name] \in tags'
                      /\ infos[i].tag_name # <<>>
                      /\ infos[i].tag_created =
                            ( /\ \A t \in tags : t.name # infos[i].tag_name
                              /\ \A j \in 1..(i - 1) :
                                   infos[j].tag_name # infos[i].tag_name ) )]_vars

\* a request for "T", "t" and a blank name was answered with a new tag "T"
\* and the tag "t" of an earlier request
C14_Witness ==
    /\ resp.op = "tags"
    /\ resp.kind = "Ok"
    /\ Unwrap(resp.body).total = 2
    /\ LET infos == Unwrap(resp.body).tags IN
       /\ infos[1].tag_name = <<"T">> /\ infos[1].tag_created
       /\ infos[2].tag_name = <<"t">> /\ ~infos[2].tag_created
       /\ infos[1].tag_id # infos[2].tag_id

(* ------------------------------- C15 ---------------------------------- *)
\* C15: in every reachable state and for every document id a request can
\* name (ids of active, soft-deleted and hard-deleted documents and an id
\* never issued), tagging with an empty list answers BadRequest, and
\* tagging with a non-empty list a document that has no row or whose row
\* has deleted_at set answers NotFound; both leave tags and document_tags
\* as they were, and every tagging step that answers with an error changes
\* nothing at all.
C15_TaggingRefused ==
    /\ [](\A document_id \in DocIdInputs, names \in TagListInputs :
            LET done == add_tags_result(documents, tags, document_tags,
                                        document_id, names)
                missing == \A d \in documents :
                              d.id = document_id => d.deleted_at # None
            IN /\ (names = <<>>)
                   => ( /\ done.res = BadRequest("Tags list cannot be empty")
                        /\ done.tags = tags
                        /\ done.links = document_tags )
               /\ (names # <<>> /\ missing)
                   => ( /\ done.res.kind = "NotFound"
                        /\ done.tags = tags
                        /\ done.links = document_tags ))
    /\ [][(resp'.op = "tags" /\ resp'.kind # "Ok") => UNCHANGED state]_vars

\* tagging a soft-deleted document was answered NotFound, in a run that
\* created tags and hard-deleted another document
C15_Witness ==
    /\ resp.op = "tags"
    /\ resp.kind = "NotFound"
    /\ \E d \in documents : resp.doc = Some(d.id) /\ d.deleted_at # None
    /\ tags # {}
    /\ hard_deleted # {}

(* ------------------------------- C16 ---------------------------------- *)
\* C16: the response of an upload, download, soft delete or hard delete,
\* and the documents, versions, metadata, tag links and stored objects it
\* leaves, are decided by the state before the request and the request
\* alone, whether its audit insert succeeds or fails: an upload answers Ok
\* exactly when its version row is committed; a download answers what the
\* lookup of the version yields and changes nothing; a soft delete of an
\* active document answers Ok and sets deleted_at; a hard delete of an
\* existing document answers Ok exactly when the row is gone; and the
\* audit log is either as it was or longer by one row.
C16_AuditFailureIsSilent ==
    [][ LET d == Unwrap(resp'.doc)
            answer == [res |-> [kind |-> resp'.kind, msg |-> resp'.msg],
                       body |-> resp'.body]
            rows_kept == UNCHANGED <<documents, document_versions,
                                     document_metadata, tags, document_tags>>
            logged == Len(audit_logs') = Len(audit_logs) + 1
            not_logged == Len(audit_logs') = Len(audit_logs)
        IN
        /\ (resp'.op = "upload")
           => ( /\ (resp'.kind = "Ok") <=> (document_versions' # document_versions)
                /\ (resp'.kind = "Ok")
                   => ( /\ \E v \in document_versions' \ document_versions :
                             /\ document_versions' = document_versions \cup {v}
                             /\ Unwrap(resp'.body).document_id = v.document_id
                             /\ Unwrap(resp'.body).version_number = v.version_number
                             /\ Unwrap(resp'.body).stored_path = v.file_path
                             /\ stat_is_ok(storage', v.file_path)
                             /\ \E x \in documents' : x.id = v.document_id
                        /\ (logged \/ not_logged) )
                /\ (resp'.kind # "Ok") => (rows_kept /\ not_logged) )
        /\ (resp'.op = "download" /\ IsSome(resp'.doc))
           => ( /\ \E query_version \in AuditInputs.versions :
                     answer = download_result(documents, document_versions,
                                              storage, d, query_version)
                /\ rows_kept
                /\ storage' = storage
                /\ IF resp'.kind = "Ok" THEN logged \/ not_logged ELSE not_logged )
        /\ (resp'.op = "soft_delete" /\ IsSome(resp'.doc))
           => ( IF \E x \in documents : x.id = d /\ x.deleted_at = None
                THEN /\ resp'.kind = "Ok"
                     /\ \E x \in documents :
                          /\ x.id = d
                          /\ documents' = (documents \ {x}) \cup
                                {[x EXCEPT !.deleted_at = Some(clock)]}
                     /\ UNCHANGED <<document_versions, document_metadata, tags,
                                    document_tags, storage>>
                     /\ (logged \/ not_logged)
                ELSE /\ resp'.kind # "Ok"
                     /\ UNCHANGED state )
        /\ (resp'.op = "hard_delete" /\ IsSome(resp'.doc))
           => ( IF \E x \in documents : x.id = d
                THEN /\ resp'.kind \in {"Ok", "Db"}
                     /\ (resp'.kind = "Ok") <=> (\A x \in documents' : x.id # d)
                     /\ DOMAIN storage' = DOMAIN storage \
                           {v.file_path : v \in versions_of(document_versions, d)}
                     /\ (resp'.kind = "Ok")
                        => ( /\ versions_of(document_versions', d) = {}
                             /\ Unwrap(resp'.body).versions_deleted =
                                   Cardinality(versions_of(document_versions, d)) )
                     /\ (resp'.kind = "Db") => rows_kept
                     /\ (logged \/ not_logged)
                ELSE /\ resp'.kind = "NotFound"
                     /\ UNCHANGED state ) ]_vars

\* a soft delete answered Ok although no audit row could be written
C16_Witness ==
    /\ resp.op = "soft_delete"
    /\ resp.kind = "Ok"
    /\ audit_logs = <<>>
    /\ \E x \in documents : resp.doc = Some(x.id) /\ x.deleted_at # None

(* ------------------------------- C17 ---------------------------------- *)
\* C17: an audit row is written only by a request whose operation took
\* effect and that returned success: every step that adds a row to
\* audit_logs answers Ok, and a Delete row is added only by a step that
\* set deleted_at or removed the document row.
C17_AuditedOnlyAfterSuccess ==
    [][ (Len(audit_logs') > Len(audit_logs))
        => ( /\ resp'.kind = "Ok"
             /\ (audit_logs'[Len(audit_logs')].action = "Delete")
                => documents' # documents ) ]_vars

(* ------------------------------- C18 ---------------------------------- *)
\* C18: no step changes or removes a row of audit_logs: every row is, after
\* the step, where it was and as it was; and a successful audit listing
\* returns every row, with total equal to the number of rows.
C18_AuditLogAppendOnly ==
    [][ /\ Len(audit_logs') >= Len(audit_logs)
        /\ \A i \in 1..Len(audit_logs) : audit_logs'[i] = audit_logs[i]
        /\ (resp'.op = "audit" /\ resp'.kind = "Ok")
           => ( /\ Unwrap(resp'.body).total = Len(audit_logs)
                /\ Len(Unwrap(resp'.body).data) = Len(audit_logs)
                /\ \A i \in 1..Len(audit_logs) :
                     \E j \in 1..Len(audit_logs) :
                        Unwrap(resp'.body).data[j] = audit_logs[i] ) ]_vars

(* ------------------------------- C19 ---------------------------------- *)
\* C19: while audit inserts succeed, a successful upload adds exactly one
\* Upload row with the document id and the new version number, a
\* successful download exactly one Download row with the document id and
\* the version served, a successful soft delete exactly one Delete row with
\* delete_type "soft" and a successful hard delete exactly one Delete row
\* with delete_type "hard"; a failed upload or download adds none; tagging,
\* login, the document listing, the folder operations and the audit
\* listing add none; no step adds more than one row; and every row has
\* action Upload, Download or Delete.
C19_OneEntryPerOperation ==
    /\ [](\A i \in 1..Len(audit_logs) :
            audit_logs[i].action \in {"Upload", "Download", "Delete"})
    /\ [][ LET inserts_succeed == AuditOutcomes(TrailInputs) = {TRUE}
                n == Len(audit_logs)
                added == Len(audit_logs') = n + 1
                none_added == Len(audit_logs') = n
                entry == audit_logs'[n + 1]
                succeeded(op) == resp'.op = op /\ resp'.kind = "Ok"
                                 /\ inserts_succeed
            IN
            /\ added \/ none_added
            /\ succeeded("upload")
               => ( /\ added
                    /\ entry.action = "Upload"
                    /\ entry.document_id = Some(Unwrap(resp'.body).document_id)
                    /\ entry.document_version =
                          Some(Unwrap(resp'.body).version_number)
                    /\ \E v \in document_versions' \ document_versions :
                          /\ Some(v.document_id) = entry.document_id
                          /\ Some(v.version_number) = entry.document_version )
            /\ succeeded("download")
               => ( /\ added
                    /\ entry.action = "Download"
                    /\ entry.document_id = resp'.doc
                    /\ entry.document_version =
                          Some(Unwrap(resp'.body).version_number) )
            /\ succeeded("soft_delete")
               => ( /\ added
                    /\ entry.action = "Delete"
                    /\ entry.metadata.delete_type = "soft"
                    /\ entry.document_id = resp'.doc )
            /\ succeeded("hard_delete")
               => ( /\ added
                    /\ entry.action = "Delete"
                    /\ entry.metadata.delete_type = "hard" )
            /\ (resp'.op \in {"upload", "download"} /\ resp'.kind # "Ok")
               => none_added
            /\ (resp'.op \in {"tags", "login", "list", "audit", "create_folder",
                               "list_folders"})
               => none_added ]_vars

\* the log holds the Upload row of a version and the Download row of the
\* same version, after a download that failed
C19_Witness ==
    /\ Len(audit_logs) = 2
    /\ audit_logs[1].action = "Upload"
    /\ audit_logs[2].action = "Download"
    /\ audit_logs[2].document_version = audit_logs[1].document_version
    /\ resp.op = "download"
    /\ resp.kind = "NotFound"

C21_ErrorIsLiteralMessage ==
    resp.kind \in {"BadRequest", "NotFound"} => resp.error = Some(resp.msg)

\* C21 (amended): for a BadRequest error the `error` field of the response
\* body is "bad request: " followed by the handler's message, for a NotFound
\* error it is "not found: " followed by the handler's message, and a
\* successful response has no error body.
C21_ErrorIsPrefixedMessage ==
    /\ resp.kind = "BadRequest" =>
           resp.error = Some("bad request: " \o resp.msg)
    /\ resp.kind = "NotFound" =>
           resp.error = Some("not found: " \o resp.msg)
    /\ resp.kind = "Ok" => resp.error = None

\* an upload without a file was answered with the body text
C21_Witness ==
    /\ resp.op = "upload"
    /\ resp.kind = "BadRequest"
    /\ resp.msg = "Missing file"
    /\ resp.error = Some("bad request: Missing file")
\* whether a JSON text is an object whose values are all strings
C22_ObjectOfStrings(text) ==
    LET v == from_str(text) IN
    /\ IsSome(v)
    /\ Unwrap(v).type = "Object"
    /\ \A i \in 1..Len(Unwrap(v).map) : Unwrap(v).map[i].v.type = "String"

\* the upload that was answered sent a "metadata" field that is not a JSON
\* object of string values
C22_BadMetadata(r) ==
    /\ r.op = "upload"
    /\ IsSome(r.form)
    /\ \E i \in 1..Len(Unwrap(r.form)) :
          /\ Unwrap(r.form)[i].name = "metadata"
          /\ ~C22_ObjectOfStrings(Unwrap(r.form)[i].json)

\* C22: an upload whose `metadata` field is not a JSON object whose values
\* are all strings fails with BadRequest "Invalid metadata JSON; expected an
\* object of string values" and stores nothing; an object with a number,
\* boolean, null, array or nested-object value is rejected.
C22_BadMetadataRejected ==
    /\ [](C22_BadMetadata(resp) =>
             /\ resp.kind = "BadRequest"
             /\ resp.msg = "Invalid metadata JSON; expected an object of string values")
    /\ [][C22_BadMetadata(resp') => UNCHANGED state]_vars
\* the (key, value) pairs a form supplies, in the order sent: a meta_<key>
\* field with a non-empty key, and the string-valued members with a
\* non-empty key of a "metadata" object
RECURSIVE C23_Members(_)
C23_Members(map) ==
    IF map = <<>> THEN <<>>
    ELSE (IF Head(map).v.type = "String" /\ Head(map).k # ""
          THEN <<[key |-> Head(map).k, value |-> Head(map).v.s]>>
          ELSE <<>>) \o C23_Members(Tail(map))

RECURSIVE C23_Supplied(_)
C23_Supplied(fields) ==
    IF fields = <<>> THEN <<>>
    ELSE LET f == Head(fields) IN
         (IF f.name = "metadata"
          THEN C23_Members(Unwrap(from_str(f.json)).map)
          ELSE IF f.name \in {"meta_k", "meta_m"}
          THEN <<[key |-> meta_key(f.name), value |-> f.value]>>
          ELSE <<>>) \o C23_Supplied(Tail(fields))

C23_Keys(sup) == {sup[i].key : i \in 1..Len(sup)}
C23_LastValue(sup, key) ==
    sup[Max({i \in 1..Len(sup) : sup[i].key = key})].value

\* C23: metadata is upserted per (document_id, key): there is at most one
\* metadata row per (document, key); after a successful upload each key the
\* request supplied holds the last value supplied for it; every other
\* metadata row, of this document or of another, is unchanged, and no
\* other row appears.
C23_MetadataUpserted ==
    /\ [](\A r1, r2 \in document_metadata :
            (r1.document_id = r2.document_id /\ r1.key = r2.key) => r1 = r2)
    /\ [][(resp'.op = "upload" /\ resp'.kind = "Ok" /\ IsSome(resp'.form)) =>
            LET d == Unwrap(resp'.body).document_id
                sup == C23_Supplied(Unwrap(resp'.form))
            IN /\ \A key \in C23_Keys(sup) :
                    [document_id |-> d, key |-> key,
                     value |-> Some(C23_LastValue(sup, key))]
                        \in document_metadata'
               /\ \A r \in document_metadata \cup document_metadata' :
                    (r.document_id # d \/ r.key \notin C23_Keys(sup)) =>
                       (r \in document_metadata <=> r \in document_metadata')
               /\ Unwrap(resp'.body).metadata_count = Cardinality(C23_Keys(sup))
          ]_vars

\* a document holds k = "x" and m = "y" after two uploads: the second one,
\* a new version, supplied k twice ("y", then "x") and left m alone
C23_Witness ==
    /\ resp.op = "upload"
    /\ resp.kind = "Ok"
    /\ resp.form = Some(<<MetadataField(<<Tok("{"), Str("k"), Tok(":"),
                                          Str("y"), Tok("}")>>),
                          MetaField("meta_k", "x")>>)
    /\ Unwrap(resp.body).version_number = 2
    /\ {r \in document_metadata : r.document_id = Unwrap(resp.body).document_id}
         = {[document_id |-> Unwrap(resp.body).document_id, key |-> "k",
             value |-> Some("x")],
            [document_id |-> Unwrap(resp.body).document_id, key |-> "m",
             value |-> Some("y")]}
\* the non-soft-deleted documents that match the title and category filters
C24_Matching(p) ==
    list_filter(documents, IF IsSome(p.title) THEN Unwrap(p.title) ELSE <<>>,
                p.category)

\* C24: the listing uses page = max(requested page or 1, 1) and page_size =
\* min(requested page_size or 20, 100), skips (page-1)*page_size documents
\* of the matching ones, newest first, and returns at most page_size of
\* them; total is the number of non-soft-deleted documents matching the
\* filters, whatever page and page_size are; each returned document carries
\* the number, file name and file size of its highest-numbered version, or
\* none if it has no version; and every listing response is such a result.
C24_ListingPaged ==
    /\ \A p \in ListPagingInputs :
         LET r == list_result(documents, document_versions, p)
             matching == C24_Matching(p)
             page == IF IsSome(p.page) /\ Unwrap(p.page) >= 1
                     THEN Unwrap(p.page) ELSE 1
             page_size == IF ~IsSome(p.page_size) THEN 20
                          ELSE IF Unwrap(p.page_size) > 100 THEN 100
                          ELSE Unwrap(p.page_size)
             skipped == (page - 1) * page_size
             left == IF Cardinality(matching) > skipped
                     THEN Cardinality(matching) - skipped ELSE 0
         IN /\ r.page = page
            /\ r.page_size = page_size
            /\ r.total = Cardinality(matching)
            /\ Len(r.data) <= page_size
            /\ Len(r.data) = (IF left < page_size THEN left ELSE page_size)
            /\ \A i \in 1..Len(r.data) :
                 /\ \E d \in matching : d.id = r.data[i].id
                 /\ Cardinality({d \in matching : d.id > r.data[i].id})
                       = skipped + i - 1
                 /\ LET vs == {v \in document_versions :
                                 v.document_id = r.data[i].id}
                    IN IF vs = {}
                       THEN /\ r.data[i].latest_version_number = None
                            /\ r.data[i].latest_file_name = None
                            /\ r.data[i].latest_file_size = None
                       ELSE \E v \in vs :
                              /\ \A u \in vs : u.version_number <= v.version_number
                              /\ r.data[i].latest_version_number
                                    = Some(v.version_number)
                              /\ r.data[i].latest_file_name = Some(v.file_name)
                              /\ r.data[i].latest_file_size = Some(v.file_size)
    /\ resp.op = "list" =>
         \E p \in ListPagingInputs :
            resp.body = Some(list_result(documents, document_versions, p))

\* the second page of size 1 of two documents: the older document, which has
\* no version, while the newer one has two versions
C24_Witness ==
    /\ resp.op = "list"
    /\ Unwrap(resp.body).page = 2
    /\ Unwrap(resp.body).page_size = 1
    /\ Unwrap(resp.body).total = 2
    /\ Len(Unwrap(resp.body).data) = 1
    /\ Unwrap(resp.body).data[1].id = 1
    /\ Unwrap(resp.body).data[1].latest_version_number = None
    /\ \E v \in document_versions : v.document_id = 2 /\ v.version_number = 2
\* C25: two concurrent uploads naming the same document can read the same
\* maximum and attempt the same next version_number; under the uniqueness
\* of (document_id, version_number) an upload whose number a committed row
\* already holds fails at its insert with a database error, is not retried
\* (the request ends there, its number never changes) and commits no rows;
\* and after any interleaving the version numbers of every document are
\* distinct and exactly 1..n.
C25_VersionRace ==
    /\ [](\A d \in DocIdInputs :
            LET vs == {v \in document_versions : v.document_id = d} IN
            {v.version_number : v \in vs} = 1..Cardinality(vs))
    /\ [][\A t \in Tasks :
            /\ (/\ tasks[t].pc = "written"
                /\ tasks'[t] # tasks[t]
                /\ \E v \in document_versions :
                      /\ Some(v.document_id) = tasks[t].document_id
                      /\ v.version_number = tasks[t].version_number)
               => (/\ tasks'[t].pc = "done"
                   /\ tasks'[t].res = Db)
            /\ (tasks[t].pc \in {"begun", "written", "inserted"})
               => (/\ tasks'[t].version_number = tasks[t].version_number
                   /\ tasks[t].pc # "begun" => tasks'[t].pc # "begun")
            /\ (tasks[t].pc # "done" /\ tasks'[t].pc = "done"
                  /\ tasks'[t].res.kind # "Ok")
               => UNCHANGED <<documents, document_versions, document_metadata>>
         ]_vars

\* both requests read the same maximum of the same document and attempted
\* the same number without any injected fault; one committed it, the other
\* got the database error
C25_Witness ==
    /\ tasks[1].pc = "done" /\ tasks[2].pc = "done"
    /\ tasks[1].failing = "none" /\ tasks[2].failing = "none"
    /\ tasks[1].document_id = tasks[2].document_id
    /\ tasks[1].version_number = 2 /\ tasks[2].version_number = 2
    /\ tasks[1].res = Ok
    /\ tasks[2].res = Db
    /\ \A d \in DocIdInputs :
         Cardinality({v \in document_versions : v.document_id = d}) \in {0, 2}
\* C30: a DocumentVersion is immutable once created, including its stored
\* bytes: after any interleaving of requests the object at the file_path of
\* every committed version row holds exactly the bytes uploaded by the
\* request that inserted the row (matching the row's file_name and
\* file_size); no later or concurrent upload, also a failing one,
\* overwrites them.
C30_StoredBytesImmutable ==
    \A v \in document_versions :
       \E u \in uploaded :
          /\ u.document_id = v.document_id
          /\ u.version_number = v.version_number
          /\ u.file_name = v.file_name
          /\ Len(u.bytes) = v.file_size
          /\ v.file_path \in DOMAIN storage
          /\ storage[v.file_path] = FileObject(u.bytes)
\* C26: two concurrent folder creations for the same sanitized name can both
\* pass the existence check and both return success; when both have
\* returned success and no third request has been made beside them,
\* exactly one sidecar object exists for the folder, and
\* it holds the complete metadata (folder_name, created_by,
\* created_by_username, created_at) of one of the two requests.
C26_FolderRace ==
    \A t1, t2 \in Tasks :
      (/\ t1 # t2
       /\ tasks[t1].op = "create_folder" /\ tasks[t2].op = "create_folder"
       /\ tasks[t1].pc = "done" /\ tasks[t2].pc = "done"
       /\ tasks[t1].res = Ok /\ tasks[t2].res = Ok
       /\ tasks[t1].name = tasks[t2].name
       /\ \A t3 \in Tasks \ {t1, t2} : tasks[t3].pc = "idle")
      => LET name == tasks[t1].name
             path == name \o <<"/", ".folder_metadata.json">>
             under == {k \in DOMAIN storage :
                         /\ Len(k) > Len(name)
                         /\ SubSeq(k, 1, Len(name) + 1) = name \o <<"/">>}
         IN /\ under = {path}
            /\ storage[path].kind = "json"
            /\ \E t \in {t1, t2} :
                 \E u \in Users :
                   /\ Some(u.api_key) = tasks[t].key
                   /\ storage[path].json =
                        Some([folder_name |-> name,
                              created_by |-> u.id,
                              created_by_username |-> u.username,
                              created_at |-> tasks[t].now])

\* the editor and the admin both created folder F_D, from the names "F D"
\* and " F_D", and both were answered success; the sidecar is the admin's
C26_Witness ==
    /\ tasks[1].op = "create_folder" /\ tasks[2].op = "create_folder"
    /\ tasks[1].pc = "done" /\ tasks[2].pc = "done"
    /\ tasks[1].res = Ok /\ tasks[2].res = Ok
    /\ tasks[1].key = Some("key-e") /\ tasks[2].key = Some("key-a")
    /\ tasks[1].name = <<"F", "_", "D">> /\ tasks[2].name = <<"F", "_", "D">>
    /\ storage[<<"F", "_", "D", "/", ".folder_metadata.json">>].json =
         Some([folder_name |-> <<"F", "_", "D">>, created_by |-> "admin1",
               created_by_username |-> <<"a">>, created_at |-> 1])
\* the top-level prefixes of the object store, and those under which the
\* sidecar object lies
C27_Prefixes == {first_component(k) : k \in DOMAIN storage} \ {<<>>}
C27_WithSidecar ==
    {f \in C27_Prefixes :
        /\ (f \o <<"/", ".folder_metadata.json">>) \in DOMAIN storage
        /\ storage[f \o <<"/", ".folder_metadata.json">>].kind = "json"}

\* C27: the folder listing returns exactly the top-level prefixes whose
\* sidecar can be read and parsed, each with the content of its sidecar; a
\* prefix that holds files but has no sidecar is never listed; an upload
\* whose file was written succeeds, whether or not the folder has a sidecar
\* and whether or not the sidecar write of this upload failed.
C27_FolderListing ==
    /\ [](resp.op = "list_folders" /\ resp.kind = "Ok" =>
            LET body == Unwrap(resp.body) IN
            /\ {f.folder_name : f \in body.folders} = C27_WithSidecar
            /\ \A f \in body.folders :
                 storage[f.folder_name \o <<"/", ".folder_metadata.json">>].json
                    = Some(f)
            /\ body.total = Cardinality(C27_WithSidecar)
            /\ \A p \in C27_Prefixes \ C27_WithSidecar :
                 \A f \in body.folders : f.folder_name # p)
    /\ [][(/\ resp'.op = "upload"
           /\ \E k \in DOMAIN storage' :
                /\ storage'[k].kind = "file"
                /\ (k \notin DOMAIN storage \/ storage'[k] # storage[k]))
          => resp'.kind = "Ok"]_vars

\* the listing shows folder F_D alone, while folder F holds the files of two
\* uploads whose sidecar writes both failed
C27_Witness ==
    /\ resp.op = "list_folders"
    /\ {f.folder_name : f \in Unwrap(resp.body).folders} = {<<"F", "_", "D">>}
    /\ <<"F", "/", ".folder_metadata.json">> \notin DOMAIN storage
    /\ Cardinality({k \in DOMAIN storage :
                      /\ storage[k].kind = "file"
                      /\ first_component(k) = <<"F">>}) = 2
\* C28: a (document_id, tag_id) link exists at most once: attaching a tag the
\* document already carries, whether the request finds the link in its check
\* or another request inserts it between the check and the INSERT, stores
\* no second link and goes on to the next name with the tag reported; and
\* no step of any operation removes a link.
C28_OnePerPair ==
    \A l1, l2 \in document_tags :
      (l1.document_id = l2.document_id /\ l1.tag_id = l2.tag_id) => l1 = l2
C28_Reattach ==
    \A t \in Tasks :
      (/\ tasks[t].op = "tags"
       /\ tasks[t].pc \in {"link_check", "link_insert"}
       /\ tasks'[t] # tasks[t]
       /\ [document_id |-> Unwrap(tasks[t].document_id),
           tag_id |-> Unwrap(tasks[t].tag_id)] \in document_tags)
      => (/\ document_tags' = document_tags
          /\ tasks'[t].pc = "loop"
          /\ tasks'[t].created = Append(tasks[t].created, tag_info(tasks[t])))
C28_NeverRemoved == \A l \in document_tags : l \in document_tags'
C28_LinkOnceAndForever ==
    []C28_OnePerPair /\ [][C28_Reattach /\ C28_NeverRemoved]_vars
\* C28 (amended): as above, except that a link is removed by one operation:
\* the hard delete of its document, which removes it with the document row.
C28_RemovedOnlyByHardDelete ==
    \A l \in document_tags :
      l \notin document_tags'
      => (/\ resp'.op = "hard_delete"
          /\ resp'.doc = Some(l.document_id)
          /\ find_document(documents', l.document_id) = {})
C28_LinkOnceUntilHardDelete ==
    []C28_OnePerPair /\ [][C28_Reattach /\ C28_RemovedOnlyByHardDelete]_vars
\* two requests have attached the same tag to the same document, the INSERT
\* of one of them met the link of the other, and both answered 200
C28_Witness ==
    \E t1, t2 \in Tasks :
      /\ t1 # t2
      /\ tasks[t1].op = "tags" /\ tasks[t2].op = "tags"
      /\ tasks[t1].pc = "done" /\ tasks[t2].pc = "done"
      /\ tasks[t1].res = Ok /\ tasks[t2].res = Ok
      /\ tasks[t1].document_id = tasks[t2].document_id
      /\ tasks[t1].conflicted /\ ~tasks[t2].conflicted
      /\ \E i \in DOMAIN tasks[t1].created, j \in DOMAIN tasks[t2].created :
            /\ tasks[t1].created[i].tag_id = tasks[t2].created[j].tag_id
            /\ [document_id |-> Unwrap(tasks[t1].document_id),
                tag_id |-> tasks[t1].created[i].tag_id] \in document_tags
\* C29: the bucket warm-up always terminates: every PUT is one attempt, a
\* 2xx or 409 reply confirms the bucket and no further attempt is made, any
\* other reply and a failed connection lead to another attempt unless it
\* was the tenth, never more than 10 attempts are made, and the process
\* always arrives at binding its listener, after a confirmed bucket and
\* after 10 failed attempts alike.
C29_Attempt ==
    boot'.attempts # boot.attempts
    => (/\ boot.pc = "warmup"
        /\ ~boot.bucket_created
        /\ boot'.attempts = boot.attempts + 1
        /\ IsSome(boot'.reply)
        /\ LET reply == Unwrap(boot'.reply) IN
           IF reply.connected /\ (reply.status \in 200..299 \/ reply.status = 409)
           THEN boot'.bucket_created /\ boot'.pc = "stat"
           ELSE /\ ~boot'.bucket_created
                /\ boot'.pc = IF boot'.attempts = 10 THEN "bind" ELSE "pause")
C29_StartsRegardless ==
    /\ (boot.pc = "pause") => (boot'.pc = "warmup")
    /\ (boot.pc = "stat") => (boot'.pc = "bind")
    /\ (boot'.pc \in {"serving", "exit"}) => (boot.pc = "bind")
C39_ReportsCreated(t) ==
    {tasks[t].created[i].tag_name :
        i \in {j \in DOMAIN tasks[t].created : tasks[t].created[j].tag_created}}
      \cup (IF tasks[t].pc \in {"link_check", "link_insert"} /\ tasks[t].tag_created
            THEN {trim(tasks[t].names[tasks[t].i])} ELSE {})
\* C39: tag names stay unique under concurrency: no two Tag rows carry one
\* name and no two requests report tag_created = true for one name; a
\* request whose INSERT of the tag meets the row another request created
\* meanwhile fails with the internal database error, and that failure
\* changes neither the tags nor the links: the tags the request attached
\* before stay attached while their document exists.
C39_UniqueNames ==
    /\ \A r1, r2 \in tags : (r1.name = r2.name) => (r1 = r2)
    /\ \A t1, t2 \in Tasks :
         (t1 # t2 /\ tasks[t1].op = "tags" /\ tasks[t2].op = "tags")
         => (C39_ReportsCreated(t1) \cap C39_ReportsCreated(t2) = {})
C39_LostRace ==
    \A t \in Tasks :
      (/\ tasks[t].op = "tags"
       /\ tasks[t].pc = "tag_insert"
       /\ tasks'[t] # tasks[t]
       /\ \E r \in tags : r.name = trim(tasks[t].names[tasks[t].i]))
      => (/\ tasks'[t].pc = "done"
          /\ tasks'[t].res = Db
          /\ resp'.status = 500
          /\ tags' = tags
          /\ document_tags' = document_tags
          /\ (find_document(documents, Unwrap(tasks[t].document_id)) # {})
             => \A i \in DOMAIN tasks[t].created :
                  [document_id |-> Unwrap(tasks[t].document_id),
                   tag_id |-> tasks[t].created[i].tag_id] \in document_tags')
C39_TagRace == []C39_UniqueNames /\ [][C39_LostRace]_vars
\* one request created tag "x" and answered 200; the other had attached
\* "t", lost the race for "x" and answered 500, and "t" is still attached
C39_Witness ==
    \E t1, t2 \in Tasks :
      /\ t1 # t2
      /\ tasks[t1].op = "tags" /\ tasks[t2].op = "tags"
      /\ tasks[t1].pc = "done" /\ tasks[t1].res = Ok
      /\ <<"x">> \in C39_ReportsCreated(t1)
      /\ tasks[t2].pc = "done" /\ tasks[t2].res = Db
      /\ trim(tasks[t2].names[tasks[t2].i]) = <<"x">>
      /\ Len(tasks[t2].created) = 1
      /\ tasks[t2].created[1].tag_name = <<"t">>
      /\ [document_id |-> Unwrap(tasks[t2].document_id),
          tag_id |-> tasks[t2].created[1].tag_id] \in document_tags
      /\ Cardinality({r \in tags : r.name = <<"x">>}) = 1
\* the Delete audit entries of delete_type "soft" written for document d
C31_SoftEntries(d) ==
    {i \in DOMAIN audit_logs :
        /\ audit_logs[i].action = "Delete"
        /\ audit_logs[i].document_id = Some(d)
        /\ audit_logs[i].metadata.delete_type = "soft"}
\* the request of task t has set deleted_at
C31_Succeeded(t) ==
    /\ tasks[t].op = "soft_delete"
    /\ \/ tasks[t].pc = "updated"
       \/ tasks[t].pc = "done" /\ tasks[t].res = Ok
\* C31: of concurrent soft deletes of one active document exactly one
\* succeeds: the first conditional UPDATE sets deleted_at and its request
\* returns success, every later one affects no row and is refused with
\* InvalidInput "Document is already deleted or not found" (a request that
\* selects after the UPDATE with "Document is already deleted"), changing
\* nothing; only the request that set deleted_at writes a soft Delete
\* audit entry, so a document has at most one.
C31_OneWinner ==
    /\ \A d \in 1..next_id : Cardinality(C31_SoftEntries(d)) <= 1
    /\ \A t1, t2 \in Tasks :
         (t1 # t2 /\ C31_Succeeded(t1) /\ C31_Succeeded(t2))
         => (tasks[t1].document_id # tasks[t2].document_id)
    /\ \A t \in Tasks :
         (tasks[t].op = "soft_delete" /\ tasks[t].pc = "done"
            /\ IsSome(tasks[t].document_id) /\ tasks[t].res # Ok)
         => (/\ tasks[t].res \in
                  {NotFound("Document not found"),
                   BadRequest("Document is already deleted"),
                   BadRequest("Document is already deleted or not found")}
             /\ (tasks[t].res.kind = "BadRequest")
                => \E d \in documents : /\ d.id = Unwrap(tasks[t].document_id)
                                        /\ IsSome(d.deleted_at))
C31_Update ==
    \A t \in Tasks :
      (/\ tasks[t].op = "soft_delete"
       /\ tasks[t].pc = "selected"
       /\ tasks'[t] # tasks[t])
      => IF \E d \in documents : /\ d.id = Unwrap(tasks[t].document_id)
                                /\ d.deleted_at = None
         THEN /\ tasks'[t].pc = "updated"
              /\ \E d \in documents' : /\ d.id = Unwrap(tasks[t].document_id)
                                       /\ d.deleted_at = Some(clock)
         ELSE /\ tasks'[t].pc = "done"
              /\ tasks'[t].res =
                   BadRequest("Document is already deleted or not found")
              /\ resp'.status = 400
              /\ documents' = documents
              /\ audit_logs' = audit_logs
C31_Log ==
    /\ \A t \in Tasks :
         (tasks[t].op = "soft_delete" /\ tasks[t].pc = "updated"
            /\ tasks'[t] # tasks[t])
         => (tasks'[t].pc = "done" /\ tasks'[t].res = Ok /\ resp'.status = 200)
    /\ \A d \in 1..next_id :
         (C31_SoftEntries(d)' # C31_SoftEntries(d))
         => \E t \in Tasks : /\ C31_Succeeded(t)
                             /\ tasks[t].pc = "updated"
                             /\ tasks[t].document_id = Some(d)
                             /\ tasks'[t].pc = "done"
C31_SoftDeleteRace == []C31_OneWinner /\ [][C31_Update /\ C31_Log]_vars
\* both requests selected the active document; one answered 200 and its
\* audit entry is the only one, the other lost the race and answered 400
C31_Witness ==
    \E t1, t2 \in Tasks :
      /\ t1 # t2
      /\ tasks[t1].op = "soft_delete" /\ tasks[t2].op = "soft_delete"
      /\ tasks[t1].pc = "done" /\ tasks[t1].res = Ok
      /\ tasks[t2].pc = "done"
      /\ tasks[t2].res = BadRequest("Document is already deleted or not found")
      /\ tasks[t1].document_id = tasks[t2].document_id
      /\ Cardinality(C31_SoftEntries(Unwrap(tasks[t1].document_id))) = 1
\* the rows that carry document id d, and the stored objects at the keys of
\* its versions
C32_NoRows(d) ==
    /\ find_document(documents, d) = {}
    /\ versions_of(document_versions, d) = {}
    /\ \A r \in document_metadata : r.document_id # d
    /\ \A r \in document_tags : r.document_id # d
C32_ObjectsOf(d) ==
    {k \in DOMAIN storage :
        \E c \in CategoryInputs, n \in 1..(MaxUploads + 2) :
            k = build_storage_path_with_folder(c, d, n)}
\* C32: after a hard delete has returned success nothing of the document
\* remains: no document, version, metadata or tag-link row with its id and
\* no stored object at a key written for one of its versions, also when an
\* upload of a new version runs concurrently.
C32_NothingRemains ==
    \A d \in hard_deleted : C32_NoRows(d) /\ C32_ObjectsOf(d) = {}
\* C32 (amended): after a hard delete has returned success no document,
\* version, metadata or tag-link row with its id remains, also when an
\* upload of a new version runs concurrently; of the stored objects the
\* hard delete removes those of the version rows it fetched whose delete
\* did not fail, and no other.
C32_FilesStep ==
    \A t \in Tasks :
      (/\ tasks[t].op = "hard_delete"
       /\ tasks[t].pc = "fetched"
       /\ tasks'[t].pc = "purged")
      => (/\ tasks'[t].failed \subseteq {v.file_path : v \in tasks[t].versions}
          /\ DOMAIN storage' =
               DOMAIN storage \ ({v.file_path : v \in tasks[t].versions}
                                    \ tasks'[t].failed))
C32_RowsGone ==
    [](\A d \in hard_deleted : C32_NoRows(d)) /\ [][C32_FilesStep]_vars
\* a hard delete none of whose storage deletes failed has returned success
\* and the upload of a new version that ran beside it has failed with the
\* database error, leaving its object in the store
C32_Witness ==
    \E t1, t2 \in Tasks :
      /\ tasks[t1].op = "hard_delete" /\ tasks[t1].pc = "done"
      /\ tasks[t1].res = Ok /\ tasks[t1].failed = {}
      /\ tasks[t2].op = "upload" /\ tasks[t2].pc = "done"
      /\ tasks[t2].res = Db
      /\ tasks[t2].document_id = tasks[t1].document_id
      /\ Unwrap(tasks[t1].document_id) \in hard_deleted
      /\ C32_NoRows(Unwrap(tasks[t1].document_id))
      /\ C32_ObjectsOf(Unwrap(tasks[t1].document_id)) # {}

\* C33: in every reachable state each committed version row has a stored
\* object at its file_path, also between the steps of a concurrent hard
\* delete and after a hard delete whose row deletion fails.
C33_EveryRowHasBytes ==
    \A v \in document_versions : v.file_path \in DOMAIN storage
\* C33 (amended): each version row has a stored object at its file_path
\* when it is committed, and that object goes missing only by a hard
\* delete of the version's document, which deletes the objects before the
\* rows: between those steps, and for good when the row deletion fails,
\* the rows are left without their objects.
C33_CommittedWithBytes ==
    \A v \in document_versions' \ document_versions :
        v.file_path \in DOMAIN storage'
C33_LostOnlyByHardDelete ==
    \A v \in document_versions :
      (v.file_path \in DOMAIN storage /\ v.file_path \notin DOMAIN storage')
      => \E t \in Tasks :
           /\ tasks[t].op = "hard_delete"
           /\ tasks[t].pc = "fetched"
           /\ tasks'[t].pc = "purged"
           /\ tasks[t].document_id = Some(v.document_id)
           /\ v \in tasks[t].versions
C33_BytesUntilHardDelete ==
    [][C33_CommittedWithBytes /\ C33_LostOnlyByHardDelete]_vars
\* the row deletion of a hard delete has failed after its storage deletes:
\* the document is still active, its version row is there, the object is
\* not, and a download of it has just failed with the storage error
C33_Witness ==
    /\ resp.op = "download"
    /\ resp.kind = "Storage"
    /\ \E v \in document_versions :
         /\ resp.doc = Some(v.document_id)
         /\ v.file_path \notin DOMAIN storage
         /\ find_active_document(documents, v.document_id) # {}
    /\ \A t \in Tasks : tasks[t].pc \in {"idle", "done"}
    /\ \E t \in Tasks : tasks[t].op = "hard_delete" /\ tasks[t].res = Db
\* the keys of a sequence, each once, in the order of their first occurrence
RECURSIVE C34_FirstOccurrences(_)
C34_FirstOccurrences(keys) ==
    IF keys = <<>> THEN <<>>
    ELSE <<Head(keys)>>
           \o C34_FirstOccurrences(SelectSeq(Tail(keys), LAMBDA k : k # Head(keys)))
\* the keys request r stored, in the order they were first supplied
C34_StoredKeys(r) ==
    LET stored == {e.key : e \in {collect_metadata(Unwrap(r.form))[i] :
                                   i \in DOMAIN collect_metadata(Unwrap(r.form))}}
    IN SelectSeq(C34_FirstOccurrences(collect_metadata_keys(Unwrap(r.form))),
                 LAMBDA k : k \in stored)
\* C34: the metadata_message of a successful upload reports the number of
\* distinct metadata keys the request stored and lists exactly those keys,
\* each once, in the order they were first supplied; with no metadata it
\* reports 0 and lists no keys.
C34_MessageListsStoredKeys ==
    (resp.op = "upload" /\ resp.kind = "Ok" /\ IsSome(resp.form))
    => LET keys == C34_StoredKeys(resp)
       IN Unwrap(resp.body).metadata_message =
            "Inserted/updated " \o ToString(Len(keys)) \o " metadata entries"
              \o (IF keys = <<>> THEN "" ELSE ": " \o join(keys, ","))
\* C35: an upload that names an existing document only adds a version and
\* upserts metadata: whatever title and category the form carries, the
\* document rows are what they were (no row added, none changed), every
\* earlier version row is kept as it was, the one row added is the next
\* version of the named document, and the metadata of other documents is
\* untouched.
C35_AppendOnlyAddsVersion ==
    (/\ resp'.op = "upload"
     /\ resp'.kind = "Ok"
     /\ IsSome(resp'.doc)
     /\ upload_count' = upload_count + 1)
    => LET d == Unwrap(resp'.doc) IN
       /\ documents' = documents
       /\ next_id' = next_id
       /\ document_versions \subseteq document_versions'
       /\ \E v \in document_versions' :
            /\ document_versions' \ document_versions = {v}
            /\ v.document_id = d
            /\ v.version_number =
                 Cardinality(versions_of(document_versions, d)) + 1
       /\ {r \in document_metadata' : r.document_id # d}
            = {r \in document_metadata : r.document_id # d}
C35_AppendFrame == [][C35_AppendOnlyAddsVersion]_vars
\* a second version has just been uploaded under folder F to a document
\* whose category is absent and still is
C35_Witness ==
    /\ resp.op = "upload" /\ resp.kind = "Ok" /\ IsSome(resp.doc)
    /\ Unwrap(resp.body).version_number = 2
    /\ \E d \in documents :
         /\ d.id = Unwrap(resp.doc)
         /\ d.category = None
         /\ d.title = <<"T">>
         /\ \E u \in uploaded : /\ u.document_id = d.id
                                /\ u.version_number = 2
                                /\ u.category = Some(<<"F">>)
\* C36: upload does not check deleted_at: an upload that names a
\* soft-deleted document succeeds, stores the file under the key of the
\* next version, adds that version row and, unless the audit insert
\* fails, the Upload audit entry, and leaves the document soft-deleted:
\* the listing does not show it and a download does not find it.
C36_UploadToDeleted ==
    (/\ resp'.op = "upload"
     /\ IsSome(resp'.doc)
     /\ \E d \in documents : d.id = Unwrap(resp'.doc) /\ IsSome(d.deleted_at))
    => LET id == Unwrap(resp'.doc)
           n == Cardinality(versions_of(document_versions, id)) + 1
       IN
       /\ resp'.kind = "Ok"
       /\ resp'.status = 200
       /\ documents' = documents
       /\ \E v \in document_versions' \ document_versions :
            /\ v.document_id = id
            /\ v.version_number = n
            /\ v.file_path \in DOMAIN storage'
            /\ v.file_path = Unwrap(resp'.body).stored_path
            /\ \E u \in uploaded' :
                 /\ u.document_id = id /\ u.version_number = n
                 /\ storage'[v.file_path] = FileObject(u.bytes)
            /\ \/ audit_logs' = audit_logs
               \/ /\ Len(audit_logs') = Len(audit_logs) + 1
                  /\ audit_logs'[Len(audit_logs')].action = "Upload"
                  /\ audit_logs'[Len(audit_logs')].document_id = Some(id)
                  /\ audit_logs'[Len(audit_logs')].document_version = Some(n)
       /\ download_lookup(documents', id) = {}
       /\ \A i \in DOMAIN list_result(documents', document_versions', NoFilter).data :
            list_result(documents', document_versions', NoFilter).data[i].id # id
C36_DeletedStaysDeleted == [][C36_UploadToDeleted]_vars
\* a version has just been uploaded to a soft-deleted document that had
\* one: it is stored, its Upload audit entry is the last one, and the
\* document is still soft-deleted
C36_Witness ==
    /\ resp.op = "upload" /\ resp.kind = "Ok" /\ IsSome(resp.doc)
    /\ Unwrap(resp.body).version_number = 2
    /\ \E d \in documents : d.id = Unwrap(resp.doc) /\ IsSome(d.deleted_at)
    /\ Unwrap(resp.body).stored_path \in DOMAIN storage
    /\ audit_logs # <<>>
    /\ audit_logs[Len(audit_logs)].action = "Upload"
    /\ audit_logs[Len(audit_logs)].document_id = resp.doc
    /\ audit_logs[Len(audit_logs)].document_version = Some(2)
\* the key of version n of document id when the request carried category
C37_KeyOf(category, id, n) ==
    (IF IsSome(category) /\ trim(Unwrap(category)) # <<>>
     THEN trim(Unwrap(category))
     ELSE <<"U", "n", "c", "a", "t", "e", "g", "o", "r", "i", "z", "e", "d">>)
      \o <<"/", UuidStr(id), "/", VersionStr(n)>>
\* C37: the folder of a version's storage key is the category field of the
\* upload that stored it ("Uncategorized" when that upload sent none or a
\* blank one), whatever category the document row carries, and a download
\* of any version of an active document answers with the bytes uploaded
\* as that version, under whichever folder they lie.
C37_KeyFromRequest ==
    /\ \A v \in document_versions :
         \E u \in uploaded :
           /\ u.document_id = v.document_id
           /\ u.version_number = v.version_number
           /\ v.file_path = C37_KeyOf(u.category, v.document_id, v.version_number)
    /\ \A v \in document_versions :
         (find_active_document(documents, v.document_id) # {})
         => LET result == download_result(documents, document_versions, storage,
                                          v.document_id, Some(v.version_number))
            IN /\ result.res = Ok
               /\ \E u \in uploaded :
                    /\ u.document_id = v.document_id
                    /\ u.version_number = v.version_number
                    /\ Unwrap(result.body).bytes = u.bytes
\* version 1 of a document of category F lies under F, its version 2,
\* uploaded without a category, under Uncategorized, and version 1 has
\* just been downloaded
C37_Witness ==
    /\ resp.op = "download" /\ resp.kind = "Ok"
    /\ Unwrap(resp.body).version_number = 1
    /\ \E d \in documents :
         /\ resp.doc = Some(d.id)
         /\ d.category = Some(<<"F">>)
         /\ \E v1, v2 \in versions_of(document_versions, d.id) :
              /\ v1.version_number = 1
              /\ v1.file_path = <<"F", "/", UuidStr(d.id), "/", "v1">>
              /\ v2.version_number = 2
              /\ v2.file_path = C37_KeyOf(None, d.id, 2)
\* the keys of the sidecar metadata objects of a store
C38_Sidecars(store) == {k \in DOMAIN store : k[Len(k)] = FolderMetadataFile}
\* the folder a sidecar key names: the key without "/.folder_metadata.json"
C38_FolderOf(k) == SubSeq(k, 1, Len(k) - 2)
\* every sidecar lies at {F}/.folder_metadata.json for a non-empty sanitized
\* folder name F and records folder_name = F
C38_WellPlaced ==
    \A k \in C38_Sidecars(storage) :
      LET F == C38_FolderOf(k) IN
      /\ F # <<>>
      /\ sanitize_folder_name(F) = F
      /\ k = metadata_path_of(F)
      /\ storage[k].kind = "json"
      /\ Unwrap(storage[k].json).folder_name = F
\* no request removes or rewrites a sidecar that exists
C38_NeverOverwritten ==
    [][\A k \in C38_Sidecars(storage) :
         k \in DOMAIN storage' /\ storage'[k] = storage[k]]_vars
\* C38: every sidecar metadata object ever written lies at
\* {F}/.folder_metadata.json for a non-empty sanitized folder name F and
\* records folder_name = F, and with requests served one after the other an
\* existing sidecar is never overwritten, so its created_by,
\* created_by_username and created_at stay those of its first creation,
\* whether a folder creation or an upload (of any category, blank included)
\* wrote it.
C38_SidecarWrittenOnce == []C38_WellPlaced /\ C38_NeverOverwritten
=============================================================================
